---- MODULE Spec2Model ----
(***************************************************************************)
(* State-machine model of the SPC / capability engine of                   *)
(* tightening_project (analysis/spc.py, analysis/capability.py).           *)
(*                                                                         *)
(* A pandas DataFrame is a record [isNone, columns, rows]: `columns` is    *)
(* the ordered sequence of column names and `rows` the sequence of row     *)
(* records in index order.  A float cell of a computed column is an exact  *)
(* rational [def, n, d] (def = FALSE is NaN / pd.NA); the square-root      *)
(* valued columns of the capability table are kept as signed roots         *)
(* [def, s, q] standing for s * sqrt(q).  Rounding of IEEE doubles is not  *)
(* modelled.                                                               *)
(***************************************************************************)
EXTENDS Integers, Sequences, FiniteSets, TLC

VARIABLES pc, raised, df_base, min_points, min_mr,
          df_eval, df_limits, df_points, df_alerts, df_cap,
          lake, call

vars == <<pc, raised, df_base, min_points, min_mr,
          df_eval, df_limits, df_points, df_alerts, df_cap, lake, call>>

-----------------------------------------------------------------------------
(* Bounds of the model *)

\* rows of a baseline table given to the limit estimator alone
MaxLimRows == 3
\* rows of a baseline table of the monthly build
MaxBaseRows == 2
\* rows of an evaluation table
MaxEvalRows == 2
\* rows of a baseline table given to the capability estimator
MaxCapRows == 2
\* rows of a complete table handed to one operation directly
MaxOrderRows == 3

-----------------------------------------------------------------------------
(* Cells *)

\* a missing cell (NaN / None / NaT), removed by dropna; also an argument left None
NA == -1
\* a timestamp cell that pd.to_datetime(errors="coerce") cannot parse
BAD == -2

Keys == {1, 2}
Times == {1, 2}
BaseValues == {0, 2}
EvalValues == {0, 7}
TolPairs == {<<0, 2>>, <<2, 2>>, <<2, 1>>}
MinPointsSet == {1, 2, 3}
BuildMinPoints == {1, 2}
CapMinPoints == {1, 2, 3}
\* NA stands for min_mr=None
MinMrSet == {NA, 0, 1}

-----------------------------------------------------------------------------
(* Exact arithmetic on float cells *)

Abs(i) == IF i < 0 THEN -i ELSE i

RECURSIVE GCD(_, _)
GCD(a, b) == IF b = 0 THEN a ELSE GCD(b, a % b)

NaN == [def |-> FALSE, n |-> 0, d |-> 1]

Rat(n, d) ==
    IF d = 0 THEN NaN
    ELSE LET g == GCD(Abs(n), Abs(d))
             s == IF d < 0 THEN -1 ELSE 1
         IN  [def |-> TRUE, n |-> (s * n) \div g, d |-> (s * d) \div g]

FromInt(i) == Rat(i, 1)

RAdd(a, b) == IF a.def /\ b.def THEN Rat(a.n * b.d + b.n * a.d, a.d * b.d) ELSE NaN
RSub(a, b) == IF a.def /\ b.def THEN Rat(a.n * b.d - b.n * a.d, a.d * b.d) ELSE NaN
RMul(a, b) == IF a.def /\ b.def THEN Rat(a.n * b.n, a.d * b.d) ELSE NaN
RDiv(a, b) == IF a.def /\ b.def THEN Rat(a.n * b.d, a.d * b.n) ELSE NaN
RAbs(a) == IF a.def THEN Rat(Abs(a.n), a.d) ELSE NaN
\* comparisons with NaN are False
RGt(a, b) == a.def /\ b.def /\ a.n * b.d > b.n * a.d
RLt(a, b) == RGt(b, a)
RGe(a, b) == a.def /\ b.def /\ a.n * b.d >= b.n * a.d
RMin(a, b) == IF a.def /\ b.def THEN (IF RLt(b, a) THEN b ELSE a)
              ELSE IF a.def THEN a ELSE b

RECURSIVE RSum(_)
RSum(s) == IF s = <<>> THEN FromInt(0) ELSE RAdd(Head(s), RSum(Tail(s)))

\* Series of rationals without its NaN entries (pandas reductions skip NaN)
NotNaN(s) == SelectSeq(s, LAMBDA a : a.def)
\* Series.mean(): NaN entries are skipped; NaN when nothing is left
RMean(s) == LET t == NotNaN(s) IN
            IF t = <<>> THEN NaN ELSE RDiv(RSum(t), FromInt(Len(t)))
\* Series.count(): number of non-NaN entries
RCount(s) == Len(NotNaN(s))

\* I-MR constants for a moving range of 2
\* variant: the constant for a moving range of 3
D2_MR3 == Rat(1693, 1000)
D2_MR2 == Rat(1128, 1000)
D3_MR2 == Rat(0, 1)
D4_MR2 == Rat(3267, 1000)
Three == Rat(3, 1)

-----------------------------------------------------------------------------
(* DataFrames *)

DF(cols, rws) == [isNone |-> FALSE, columns |-> cols, rows |-> rws]
NoneDF == [isNone |-> TRUE, columns |-> <<>>, rows |-> <<>>]
\* DataFrame.empty: some axis has length 0
IsEmpty(df) == df.columns = <<>> \/ df.rows = <<>>
\* variant: only None returns early
NoneOnly(df) == df.isNone

\* `df is None or df.empty`
NoneOrEmpty(df) == df.isNone \/ IsEmpty(df)

Range(s) == {s[i] : i \in DOMAIN s}
\* variant: only the first missing column is reported
FirstMissingCol(need, df) ==
    LET m == SelectSeq(need, LAMBDA c : c \notin Range(df.columns))
    IN  IF m = <<>> THEN <<>> ELSE <<Head(m)>>

\* [c for c in need if c not in df.columns]
MissingCols(need, df) == SelectSeq(need, LAMBDA c : c \notin Range(df.columns))

RECURSIVE SeqMap(_, _)
SeqMap(F(_), s) == IF s = <<>> THEN <<>> ELSE <<F(Head(s))>> \o SeqMap(F, Tail(s))

\* DataFrame.dropna() / dropna(subset=...): rows with a missing cell go
DropNA(rws, cols) == SelectSeq(rws, LAMBDA r : \A c \in cols : r[c] # NA)

\* pd.to_datetime(errors="coerce") on the DateTime column
ToDatetime(rws) ==
    SeqMap(LAMBDA r : [r EXCEPT !.DateTime = IF @ = BAD THEN NA ELSE @], rws)

\* variant: a row with equal keys goes first
KeyTimeLess(a, b) ==
    \/ a.STEP_ID < b.STEP_ID
    \/ a.STEP_ID = b.STEP_ID /\ a.DateTime < b.DateTime

\* lexicographic order on (STEP_ID, DateTime)
KeyTimeLeq(a, b) ==
    \/ a.STEP_ID < b.STEP_ID
    \/ a.STEP_ID = b.STEP_ID /\ a.DateTime <= b.DateTime

\* insert r after every element that is <= r (keeps equal keys in input order)
RECURSIVE StableInsert(_, _)
StableInsert(s, r) ==
    IF s = <<>> THEN <<r>>
    ELSE IF KeyTimeLeq(Head(s), r) THEN <<Head(s)>> \o StableInsert(Tail(s), r)
    ELSE <<r>> \o s

\* sort_values([key_col, time_col], kind="mergesort")
RECURSIVE SortValues(_)
SortValues(s) ==
    IF s = <<>> THEN <<>>
    ELSE StableInsert(SortValues(SubSeq(s, 1, Len(s) - 1)), s[Len(s)])

\* index of the previous row of the same group, 0 when there is none
PrevInGroup(rws, i) ==
    LET before == {j \in 1..(i - 1) : rws[j].STEP_ID = rws[i].STEP_ID}
    IN  IF before = {} THEN 0 ELSE CHOOSE j \in before : \A k \in before : k <= j

\* groupby(key_col, sort=False)[value_col].diff().abs()
GroupDiffAbs(rws) ==
    [i \in 1..Len(rws) |->
        LET p == PrevInGroup(rws, i)
        IN  IF p = 0 THEN NaN
            ELSE RAbs(FromInt(rws[i].FinalTorque - rws[p].FinalTorque))]

\* group keys in order of first appearance (groupby(sort=False))
RECURSIVE GroupKeys(_)
GroupKeys(rws) ==
    IF rws = <<>> THEN <<>>
    ELSE LET init == GroupKeys(SubSeq(rws, 1, Len(rws) - 1))
             k == rws[Len(rws)].STEP_ID
         IN  IF k \in Range(init) THEN init ELSE Append(init, k)

\* positions of the rows of group k
GroupIdx(rws, k) == SelectSeq([i \in 1..Len(rws) |-> i], LAMBDA i : rws[i].STEP_ID = k)

\* df[[c1, c2, ...]]: the rows restricted to the named columns
Project(rws, cols) == SeqMap(LAMBDA r : [c \in cols |-> r[c]], rws)

\* the values of column c of the rows at positions idx, as float cells
ColAt(rws, idx, c) == SeqMap(LAMBDA i : FromInt(rws[i][c]), idx)

-----------------------------------------------------------------------------
(* analysis/spc.py *)

LimitsColumns ==
    <<"STEP_ID", "N", "Xbar", "MRbar", "Sigma", "UCL", "LCL", "UCL_MR", "LCL_MR">>

Ok(df) == [raised |-> <<>>, df |-> df]
KeyError(missing) == [raised |-> missing, df |-> NoneDF]

\* x after dropna / to_datetime / dropna(subset=[time]) / stable sort
PrepareSeries(df, cols) ==
    SortValues(DropNA(ToDatetime(DropNA(Project(df.rows, cols), cols)), {"DateTime"}))

\* LCL_MR = D3_MR2 * MRbar
LclMr(mrbar) == RMul(D3_MR2, mrbar)

\* the derived columns of one limits record
LimitsRecord(k, n, xbar, mrbar) ==
    LET sigma == RDiv(mrbar, D2_MR2)
    IN  [STEP_ID |-> k, N |-> n, Xbar |-> xbar, MRbar |-> mrbar, Sigma |-> sigma,
         UCL |-> RAdd(xbar, RMul(Three, sigma)),
         LCL |-> RSub(xbar, RMul(Three, sigma)),
         UCL_MR |-> RMul(D4_MR2, mrbar),
         LCL_MR |-> LclMr(mrbar)]

\* variant: strict comparison
KeepLimitsStrict(n, mp) == n > mp

\* limits[limits["N"] >= min_points]
KeepLimits(n, mp) == n >= mp

compute_imr_limits(df, mp) ==
    IF NoneOrEmpty(df) THEN Ok(DF(LimitsColumns, <<>>))
    ELSE LET need == <<"STEP_ID", "DateTime", "FinalTorque">>
             missing == MissingCols(need, df)
         IN
         IF missing # <<>> THEN KeyError(missing)
         ELSE LET x == PrepareSeries(df, Range(need))
                  mr == GroupDiffAbs(x)
                  agg == SeqMap(LAMBDA k :
                            LET idx == GroupIdx(x, k)
                            IN  [STEP_ID |-> k, N |-> Len(idx),
                                 Xbar |-> RMean(ColAt(x, idx, "FinalTorque")),
                                 MRbar |-> RMean(SeqMap(LAMBDA i : mr[i], idx))],
                            GroupKeys(x))
                  kept == SelectSeq(agg, LAMBDA g : KeepLimits(g.N, mp))
              IN  Ok(DF(LimitsColumns,
                        SeqMap(LAMBDA g : LimitsRecord(g.STEP_ID, g.N, g.Xbar, g.MRbar),
                               kept)))

\* variant: nothing is returned
ReturnNone == [isNone |-> TRUE, columns |-> <<>>, rows |-> <<>>]

EmptyDF == DF(<<>>, <<>>)

JoinCols == <<"STEP_ID", "N", "Xbar", "Sigma", "UCL", "LCL", "MRbar", "UCL_MR", "LCL_MR">>

PointsColumns ==
    <<"STEP_ID", "DateTime", "FinalTorque",
      "N", "Xbar", "Sigma", "UCL", "LCL", "MRbar", "UCL_MR", "LCL_MR",
      "MR", "z", "is_ooc_i", "is_ooc_mr", "rule", "is_alert">>

RECURSIVE Concat(_)
Concat(ss) == IF ss = <<>> THEN <<>> ELSE Head(ss) \o Concat(Tail(ss))

\* variant: every limits record is joined to every point
MergeCross(pts, lim) ==
    Concat(SeqMap(LAMBDA p : SeqMap(LAMBDA l : p @@ l, lim), pts))

\* pts.merge(df_limits[join_cols], on=key_col, how="inner"): left order kept,
\* one joined row per matching limits row
MergeInner(pts, lim) ==
    Concat(SeqMap(LAMBDA p :
              SeqMap(LAMBDA l : p @@ l,
                     SelectSeq(lim, LAMBDA l : l.STEP_ID = p.STEP_ID)),
              pts))

\* variant: a zero sigma gives a zero z
ZScoreZeroSigma(v, xbar, sigma) ==
    IF sigma.def /\ sigma.n = 0 THEN FromInt(0) ELSE RDiv(RSub(v, xbar), sigma)

\* (value - Xbar) / Sigma.replace(0, pd.NA)
ZScore(v, xbar, sigma) ==
    LET s == IF sigma.def /\ sigma.n = 0 THEN NaN ELSE sigma
    IN  RDiv(RSub(v, xbar), s)

Int8(b) == IF b THEN 1 ELSE 0

\* variant: a value on a limit is out of control
IsOocIClosed(v, ucl, lcl) == Int8(RGe(v, ucl) \/ RGe(lcl, v))

\* ((value > UCL) | (value < LCL)).astype("int8")
IsOocI(v, ucl, lcl) == Int8(RGt(v, ucl) \/ RLt(v, lcl))

\* variant: fillna(True)
IsOocMrFillTrue(mr, ucl_mr) == Int8(~mr.def \/ RGt(mr, ucl_mr))

\* (MR > UCL_MR).fillna(False).astype("int8")
IsOocMr(mr, ucl_mr) == Int8(RGt(mr, ucl_mr))

\* variant: the individuals rule assigned first
RuleOfIndividualFirst(ooc_i, ooc_mr) ==
    IF ooc_i = 1 THEN "I_3SIGMA" ELSE IF ooc_mr = 1 THEN "MR_3SIGMA" ELSE "OK"

\* rule = "OK"; MR_3SIGMA where is_ooc_mr; I_3SIGMA where is_ooc_i and still "OK"
RuleOf(ooc_i, ooc_mr) ==
    LET r0 == "OK"
        r1 == IF ooc_mr = 1 THEN "MR_3SIGMA" ELSE r0
    IN  IF ooc_i = 1 /\ r1 = "OK" THEN "I_3SIGMA" ELSE r1

\* variant: only the individual flag raises an alert
IsAlertIndividualOnly(ooc_i, ooc_mr) == Int8(ooc_i = 1)

\* ((is_ooc_i == 1) | (is_ooc_mr == 1)).astype("int8")
IsAlert(ooc_i, ooc_mr) == Int8(ooc_i = 1 \/ ooc_mr = 1)

\* variant: the distance to the baseline center
PointsMRFromCenter(rws) ==
    [i \in 1..Len(rws) |-> RAbs(RSub(FromInt(rws[i].FinalTorque), rws[i].Xbar))]

\* the moving range of the merged evaluation rows
PointsMR(rws) == GroupDiffAbs(rws)

score_imr_points(ev, lim) ==
    IF NoneOrEmpty(ev) THEN Ok(EmptyDF)
    ELSE IF NoneOrEmpty(lim) THEN Ok(EmptyDF)
    ELSE LET need == <<"STEP_ID", "DateTime", "FinalTorque">>
             missing == MissingCols(need, ev)
         IN
         IF missing # <<>> THEN KeyError(missing)
         ELSE IF MissingCols(JoinCols, lim) # <<>> THEN KeyError(MissingCols(JoinCols, lim))
         ELSE LET pts == PrepareSeries(ev, Range(need))
                  mrg == MergeInner(pts, Project(lim.rows, Range(JoinCols)))
                  mr == PointsMR(mrg)
                  Score(i) ==
                      LET r == mrg[i]
                          v == FromInt(r.FinalTorque)
                          ooc_i == IsOocI(v, r.UCL, r.LCL)
                          ooc_mr == IsOocMr(mr[i], r.UCL_MR)
                      IN  r @@ [MR |-> mr[i],
                                z |-> ZScore(v, r.Xbar, r.Sigma),
                                is_ooc_i |-> ooc_i,
                                is_ooc_mr |-> ooc_mr,
                                rule |-> RuleOf(ooc_i, ooc_mr),
                                is_alert |-> IsAlert(ooc_i, ooc_mr)]
              IN  Ok(DF(PointsColumns, SeqMap(Score, [i \in 1..Len(mrg) |-> i])))

AlertsBaseColumns == <<"STEP_ID", "n_points", "n_alerts", "first_alert", "last_alert">>

SetMin(S) == IF S = {} THEN NA ELSE CHOOSE x \in S : \A y \in S : x <= y
SetMax(S) == IF S = {} THEN NA ELSE CHOOSE x \in S : \A y \in S : x >= y

RECURSIVE SumSeq(_)
SumSeq(s) == IF s = <<>> THEN 0 ELSE Head(s) + SumSeq(Tail(s))

\* variant: every row of the group, alert or not
AllTimes(rws, idx) == {rws[i].DateTime : i \in Range(idx)} \ {NA}

\* df.loc[s.index][df.loc[s.index, "is_alert"] == 1][time_col]: the
\* timestamps of the alert rows among the rows labelled idx
AlertTimes(rws, idx) ==
    {rws[i].DateTime : i \in {j \in Range(idx) : rws[j].is_alert = 1}} \ {NA}

\* variant: every group kept
KeepAlertsAll(g) == g.n_points > 0

\* agg[agg["n_alerts"] > 0]
KeepAlerts(g) == g.n_alerts > 0

\* the rule names in pivot-column order
RuleOrder == <<"I_3SIGMA", "MR_3SIGMA", "OK">>

\* the rule columns of the pivot table: the rules seen on alert rows, sorted
PivotRules(rws) ==
    SelectSeq(RuleOrder,
              LAMBDA r : \E i \in DOMAIN rws : rws[i].is_alert = 1 /\ rws[i].rule = r)

\* pivot_table(index=key, columns="rule", aggfunc="size", fill_value=0) on the
\* alert rows: the cell of group k and rule r
PivotCell(rws, k, r) ==
    Cardinality({i \in DOMAIN rws :
                    rws[i].is_alert = 1 /\ rws[i].STEP_ID = k /\ rws[i].rule = r})

\* a row over the columns cols from the cell function Cell(_)
RowOf(cols, Cell(_)) == [c \in Range(cols) |-> Cell(c)]

\* the columns added when the pivot had no such rule
EnsureColumns(cols) ==
    LET c1 == IF "I_3SIGMA" \notin Range(cols) THEN Append(cols, "I_3SIGMA") ELSE cols
    IN  IF "MR_3SIGMA" \notin Range(c1) THEN Append(c1, "MR_3SIGMA") ELSE c1

\* the table returned for a None or empty scored table
EmptyAlerts == DF(AlertsBaseColumns, <<>>)

build_spc_alerts_from_points(points) ==
    IF NoneOrEmpty(points) THEN Ok(EmptyAlerts)
    ELSE LET need == <<"STEP_ID", "DateTime", "is_alert", "rule">>
             missing == MissingCols(need, points)
         IN
         IF missing # <<>> THEN KeyError(missing)
         ELSE LET df == ToDatetime(points.rows)
                  agg == SeqMap(LAMBDA k :
                            LET idx == GroupIdx(df, k)
                            IN  [STEP_ID |-> k,
                                 n_points |-> Len(idx),
                                 n_alerts |-> SumSeq(SeqMap(LAMBDA i : df[i].is_alert, idx)),
                                 first_alert |-> SetMin(AlertTimes(df, idx)),
                                 last_alert |-> SetMax(AlertTimes(df, idx))],
                            GroupKeys(df))
                  kept == SelectSeq(agg, LAMBDA g : KeepAlerts(g))
                  rules == PivotRules(df)
                  merged == AlertsBaseColumns \o rules
                  cols == EnsureColumns(merged)
                  Out(g) == RowOf(cols, LAMBDA c :
                                IF c \in Range(AlertsBaseColumns) THEN g[c]
                                ELSE IF c \in Range(rules) THEN PivotCell(df, g.STEP_ID, c)
                                ELSE 0)
              IN  Ok(DF(cols, SeqMap(Out, kept)))

-----------------------------------------------------------------------------
(* analysis/capability.py *)

\* s * sqrt(n / d): the exact value of a column that involves a square root
RootNaN == [def |-> FALSE, s |-> 0, n |-> 0, d |-> 1]
Root(sgn, q) ==
    IF ~q.def THEN RootNaN
    ELSE IF q.n = 0 \/ sgn = 0 THEN [def |-> TRUE, s |-> 0, n |-> 0, d |-> 1]
    ELSE [def |-> TRUE, s |-> sgn, n |-> q.n, d |-> q.d]
Sign(q) == IF q.n > 0 THEN 1 ELSE IF q.n < 0 THEN -1 ELSE 0
\* a / (c * r) for a rational a, a positive integer c and a positive root r
DivByRoot(a, c, r) ==
    Root(Sign(a), RDiv(RMul(a, a), RMul(FromInt(c * c), Rat(r.n, r.d))))
\* variant: the larger of two signed roots
RootMax(a, b) == IF a.s * a.n * b.d <= b.s * b.n * a.d THEN b ELSE a

\* the smaller of two signed roots
RootMin(a, b) == IF a.s * a.n * b.d <= b.s * b.n * a.d THEN a ELSE b

\* Series.std(ddof=1) of integer cells: NaN below two points
StdDdof1(xs) ==
    LET n == Len(xs)
        sx == SumSeq(xs)
        sxx == SumSeq(SeqMap(LAMBDA x : x * x, xs))
    IN  IF n < 2 THEN RootNaN ELSE Root(1, Rat(n * sxx - sx * sx, n * (n - 1)))

RECURSIVE SortInts(_)
SortInts(xs) ==
    IF xs = <<>> THEN <<>>
    ELSE LET m == SetMin(Range(xs))
             i == CHOOSE j \in DOMAIN xs : xs[j] = m
         IN  <<m>> \o SortInts(SubSeq(xs, 1, i - 1) \o SubSeq(xs, i + 1, Len(xs)))

\* Series.median()
Median(xs) ==
    LET srt == SortInts(xs)
        n == Len(xs)
    IN  IF n = 0 THEN NaN
        ELSE IF n % 2 = 1 THEN FromInt(srt[(n + 1) \div 2])
        ELSE Rat(srt[n \div 2] + srt[n \div 2 + 1], 2)

\* Series.nunique()
NUnique(xs) == Cardinality(Range(xs))

CapColumns ==
    <<"STEP_ID", "N", "n_mr", "mean", "std_overall", "mrbar", "sigma_within",
      "lsl", "usl", "tol_span", "Pp", "Ppk", "Cp", "Cpk",
      "tol_variants_lsl", "tol_variants_usl", "tol_inconsistent">>

CapNeed == <<"STEP_ID", "DateTime", "FinalTorque", "TorqueMinTolerance", "TorqueMaxTolerance">>

\* variant: min_points - 1 without the floor of 1
DefaultMinMrNoFloor(mp) == mp - 1

\* min_mr = max(min_points - 1, 1) when min_mr is None
DefaultMinMr(mp) == IF mp - 1 > 1 THEN mp - 1 ELSE 1
EffectiveMinMr(mp, mmr) == IF mmr = NA THEN DefaultMinMr(mp) ELSE mmr

\* variant: diff() over the whole column, not per group
DiffAbsUngrouped(rws) ==
    [i \in 1..Len(rws) |->
        IF i = 1 THEN NaN
        ELSE RAbs(FromInt(rws[i].FinalTorque - rws[i - 1].FinalTorque))]

\* the moving range of the sorted baseline rows
CapMR(rws) == GroupDiffAbs(rws)

\* stats[(stats["N"] >= min_points) & (stats["n_mr"] >= min_mr)]
KeepCap(g, mp, mmr) == g.N >= mp /\ g.n_mr >= mmr

\* variant: tol_span >= 0
TolOkNonNegative(tol_span) == RGe(tol_span, FromInt(0))

\* the validity masks
TolOk(tol_span) == RGt(tol_span, FromInt(0))
OverallOk(std_overall) == std_overall.def /\ std_overall.s = 1
WithinOk(sigma_within) == sigma_within.def /\ RGt(sigma_within, FromInt(0))

\* the derived columns of one capability record
CapRecord(g) ==
    LET lsl == g.lsl_med
        usl == g.usl_med
        tol_span == RSub(usl, lsl)
        sigma_within == RDiv(g.mrbar, D2_MR2)
        m_overall == TolOk(tol_span) /\ OverallOk(g.std_overall)
        m_within == TolOk(tol_span) /\ WithinOk(sigma_within)
    IN  [STEP_ID |-> g.STEP_ID, N |-> g.N, n_mr |-> g.n_mr, mean |-> g.mean,
         std_overall |-> g.std_overall, mrbar |-> g.mrbar,
         sigma_within |-> sigma_within,
         lsl |-> lsl, usl |-> usl, tol_span |-> tol_span,
         Pp |-> IF m_overall THEN DivByRoot(tol_span, 6, g.std_overall) ELSE RootNaN,
         Ppk |-> IF m_overall
                 THEN RootMin(DivByRoot(RSub(usl, g.mean), 3, g.std_overall),
                              DivByRoot(RSub(g.mean, lsl), 3, g.std_overall))
                 ELSE RootNaN,
         Cp |-> IF m_within
                THEN RDiv(tol_span, RMul(FromInt(6), sigma_within)) ELSE NaN,
         Cpk |-> IF m_within
                 THEN RMin(RDiv(RSub(usl, g.mean), RMul(Three, sigma_within)),
                           RDiv(RSub(g.mean, lsl), RMul(Three, sigma_within)))
                 ELSE NaN,
         tol_variants_lsl |-> g.tol_variants_lsl,
         tol_variants_usl |-> g.tol_variants_usl,
         tol_inconsistent |-> Int8(g.tol_variants_lsl > 1 \/ g.tol_variants_usl > 1)]

compute_capability_v1(df, mp, mmr_arg) ==
    IF NoneOrEmpty(df) THEN Ok(EmptyDF)
    ELSE LET missing == MissingCols(CapNeed, df)
         IN
         IF missing # <<>> THEN KeyError(missing)
         ELSE LET mmr == EffectiveMinMr(mp, mmr_arg)
                  x == PrepareSeries(df, Range(CapNeed))
                  mr == CapMR(x)
                  IntCol(idx, c) == SeqMap(LAMBDA i : x[i][c], idx)
                  stats == SeqMap(LAMBDA k :
                              LET idx == GroupIdx(x, k)
                                  mrs == SeqMap(LAMBDA i : mr[i], idx)
                              IN  [STEP_ID |-> k, N |-> Len(idx),
                                   mean |-> RMean(ColAt(x, idx, "FinalTorque")),
                                   std_overall |-> StdDdof1(IntCol(idx, "FinalTorque")),
                                   mrbar |-> RMean(mrs),
                                   n_mr |-> RCount(mrs),
                                   lsl_med |-> Median(IntCol(idx, "TorqueMinTolerance")),
                                   usl_med |-> Median(IntCol(idx, "TorqueMaxTolerance")),
                                   tol_variants_lsl |-> NUnique(IntCol(idx, "TorqueMinTolerance")),
                                   tol_variants_usl |-> NUnique(IntCol(idx, "TorqueMaxTolerance"))],
                              GroupKeys(x))
                  kept == SelectSeq(stats, LAMBDA g : KeepCap(g, mp, mmr))
              IN  Ok(DF(CapColumns, SeqMap(CapRecord, kept)))

-----------------------------------------------------------------------------
(* Inputs *)

\* all sequences over S of length at most n
RECURSIVE SeqsUpTo(_, _)
SeqsUpTo(S, n) ==
    IF n = 0 THEN {<<>>}
    ELSE LET shorter == SeqsUpTo(S, n - 1)
         IN  shorter \cup {Append(s, x) : s \in {t \in shorter : Len(t) = n - 1}, x \in S}

SpcColumns == <<"STEP_ID", "DateTime", "FinalTorque">>

SpcRow(k, t, v) == [STEP_ID |-> k, DateTime |-> t, FinalTorque |-> v]
CapRow(k, t, v, tol) ==
    [STEP_ID |-> k, DateTime |-> t, FinalTorque |-> v,
     TorqueMinTolerance |-> tol[1], TorqueMaxTolerance |-> tol[2]]

\* rows that dropna / to_datetime remove
InvalidSpcRows(v) ==
    {SpcRow(NA, 1, v), SpcRow(1, NA, v), SpcRow(1, BAD, v), SpcRow(1, 1, NA)}
InvalidCapRows ==
    {CapRow(NA, 1, 2, <<0, 2>>), CapRow(1, NA, 2, <<0, 2>>), CapRow(1, BAD, 2, <<0, 2>>),
     CapRow(1, 1, NA, <<0, 2>>), CapRow(1, 1, 2, <<NA, 2>>), CapRow(1, 1, 2, <<0, NA>>)}

\* a table without its value column
NoValueDF == DF(<<"STEP_ID", "DateTime">>, <<[STEP_ID |-> 1, DateTime |-> 1]>>)

\* baselines of the limit estimator: both groups, ties and inversions in
\* time, every kind of invalid row
LimRows == {SpcRow(k, t, v) : k \in Keys, t \in Times, v \in BaseValues}
               \cup InvalidSpcRows(2)
LimBaselines ==
    {DF(SpcColumns, r) : r \in SeqsUpTo(LimRows, MaxLimRows)} \cup {NoneDF, NoValueDF}

\* baselines of the monthly build: valid rows of one instant, and the
\* baselines that give group 1 two points and group 2 one or two
BuildRows == {SpcRow(k, 1, v) : k \in Keys, v \in BaseValues}
TwoGroupRows ==
    {<<SpcRow(1, 1, a), SpcRow(1, 1, b), SpcRow(2, 1, c)>> \o rest :
        a \in BaseValues, b \in BaseValues, c \in BaseValues,
        rest \in {<<>>} \cup {<<SpcRow(2, 1, d)>> : d \in BaseValues}}
BuildBaselines ==
    {DF(SpcColumns, r) : r \in SeqsUpTo(BuildRows, MaxBaseRows) \cup TwoGroupRows}
        \cup {NoneDF}

\* evaluation tables: any short table, and the tables with two points of
\* group 1 followed by one point of group 2
EvalRows == {SpcRow(k, t, v) : k \in Keys, t \in Times, v \in EvalValues}
ThreePointRows ==
    {<<SpcRow(1, 1, a), SpcRow(1, 2, b), SpcRow(2, 1, c)>> :
        a \in EvalValues, b \in EvalValues, c \in EvalValues}
Evals ==
    {DF(SpcColumns, r) : r \in SeqsUpTo(EvalRows, MaxEvalRows) \cup ThreePointRows
                                \cup {<<SpcRow(1, BAD, 7), SpcRow(1, 2, 7)>>}}
        \cup {NoneDF, NoValueDF}

\* baselines of the capability estimator: group 1 with every tolerance
\* pair, group 2 with the nominal pair, every kind of invalid row
NominalTol == <<0, 2>>
CapRows == {CapRow(1, t, v, tol) : t \in Times, v \in BaseValues, tol \in TolPairs}
               \cup {CapRow(2, t, v, NominalTol) : t \in Times, v \in BaseValues}
               \cup InvalidCapRows
\* three measurements 9, 10, 11 against the tolerance 8 .. 12
ExampleCapRows ==
    <<CapRow(1, 1, 9, <<8, 12>>), CapRow(1, 1, 10, <<8, 12>>), CapRow(1, 2, 11, <<8, 12>>)>>
CapBaselines ==
    {DF(CapNeed, r) : r \in SeqsUpTo(CapRows, MaxCapRows)}
        \cup {NoneDF, NoValueDF, DF(CapNeed, ExampleCapRows)}

\* tables handed to one operation directly: every choice of columns with no
\* row or one row, and complete tables of up to MaxOrderRows rows with ties
\* and inversions in time
AllColumns ==
    <<"STEP_ID", "DateTime", "FinalTorque", "TorqueMinTolerance", "TorqueMaxTolerance",
      "is_alert", "rule">>
FullRow(k, t, v) ==
    [STEP_ID |-> k, DateTime |-> t, FinalTorque |-> v,
     TorqueMinTolerance |-> 0, TorqueMaxTolerance |-> 2,
     is_alert |-> 1, rule |-> "I_3SIGMA"]
ColumnChoices == {SelectSeq(AllColumns, LAMBDA c : c \in S) : S \in SUBSET Range(AllColumns)}
PartialTables ==
    {DF(cols, Project(rws, Range(cols))) :
        cols \in ColumnChoices \ {<<>>}, rws \in {<<>>, <<FullRow(1, 1, 0)>>}}
        \cup {EmptyDF, NoneDF}
OrderRows == {FullRow(1, t, v) : t \in Times, v \in BaseValues} \cup {FullRow(2, 1, 0)}
OrderTables == {DF(AllColumns, r) : r \in SeqsUpTo(OrderRows, MaxOrderRows)}
DirectTables == PartialTables \cup OrderTables
\* the limits of a group with the baseline values 0 and 2, no limits at all
DirectLimits ==
    {compute_imr_limits(DF(SpcColumns, <<SpcRow(1, 1, 0), SpcRow(1, 1, 2)>>), 1).df,
     DF(LimitsColumns, <<>>), NoneDF}

-----------------------------------------------------------------------------
(* data/io/naming.py and data/io/bronze.py *)

\* calls of ingest_csv_to_bronze in one run
MaxIngestCalls == 3

Stems ==
    {"TighteningProduct_January25_250101120000_1",
     "TighteningProduct_February25_250201120000_1",
     "TighteningProduct_export_1"}
\* _MONTHYY_RE.search(source_stem): the month name and the two digits after
\* it, <<>> when the stem has none
MonthYYMatch(source_stem) ==
    CASE source_stem = "TighteningProduct_January25_250101120000_1" -> <<"january", 25>>
      [] source_stem = "TighteningProduct_February25_250201120000_1" -> <<"february", 25>>
      [] OTHER -> <<>>
MONTH_MAP == [january |-> 1, february |-> 2]

parse_source_stem(source_stem) ==
    LET m_time == MonthYYMatch(source_stem)
    IN  IF m_time = <<>> THEN [ok |-> FALSE, year |-> 0, month |-> 0, source_stem |-> source_stem]
        ELSE [ok |-> TRUE, year |-> 2000 + m_time[2], month |-> MONTH_MAP[m_time[1]],
              source_stem |-> source_stem]

bronze_output_dir(info) ==
    [layer |-> "bronze", year |-> info.year, month |-> info.month,
     source_file |-> info.source_stem]
bronze_parquet_path(info) == [dir |-> bronze_output_dir(info), name |-> "part-0000.parquet"]
bronze_meta_path(info) == [dir |-> bronze_output_dir(info), name |-> "meta.json"]
NoPath == [dir |-> [layer |-> "", year |-> 0, month |-> 0, source_file |-> ""], name |-> ""]

\* a file of the lake: at is the number of the call that wrote it
NoFile == [exists |-> FALSE, at |-> 0]
Written(n) == [exists |-> TRUE, at |-> n]
BronzePaths ==
    UNION {{bronze_parquet_path(parse_source_stem(c)), bronze_meta_path(parse_source_stem(c))} :
            c \in {d \in Stems : parse_source_stem(d).ok}}
\* a CSV file is not there, has no line at all, or holds a table
CsvStates == {"absent", "blank", "table"}

\* variant: an existing parquet is never redone
SkipWhenExists(exists, force) == exists

\* `out_parquet.exists() and not force`
SkipIngest(exists, force) == exists /\ ~force

\* the lake and the outcome of ingest_csv_to_bronze(csv, lake_root, force),
\* called as call number n
ingest_csv_to_bronze(lk, csv, force, n) ==
    LET info == parse_source_stem(csv)
        out_parquet == bronze_parquet_path(info)
        out_meta == bronze_meta_path(info)
        Outcome(err, ret, files) ==
            [lake |-> [lk EXCEPT !.files = files],
             call |-> [n |-> n, op |-> "ingest", csv |-> csv, force |-> force,
                       raised |-> err, ret |-> ret]]
    IN  IF lk.csv[csv] = "absent" THEN Outcome("FileNotFoundError", NoPath, lk.files)
        ELSE IF ~info.ok THEN Outcome("ValueError", NoPath, lk.files)
        ELSE IF SkipIngest(lk.files[out_parquet].exists, force)
             THEN Outcome("", out_parquet, lk.files)
        ELSE IF lk.csv[csv] = "blank" THEN Outcome("EmptyDataError", NoPath, lk.files)
        ELSE Outcome("", out_parquet,
                     [lk.files EXCEPT ![out_parquet] = Written(n), ![out_meta] = Written(n)])

-----------------------------------------------------------------------------
(* data/cleaning/clean_torque.py, data/cleaning/helpers.py, data/schema_silver.py *)

\* rows of a raw table given to clean_tightening_df
MaxRawRows == 2

\* float cells of the raw table are whole thousandths, NA when missing
Gt(a, b) == a # NA /\ b # NA /\ a > b
Ge(a, b) == a # NA /\ b # NA /\ a >= b
EqCell(a, b) == a # NA /\ b # NA /\ a = b

RawRequired ==
    <<"STEP_ID", "STEP_TorqueTarget", "STEP_TorqueMinTolerance",
      "STEP_TorqueMaxTolerance", "RES_FinalTorque">>
\* [cols.final, cols.target, cols.tol_min, cols.tol_max]
EssentialCols ==
    {"RES_FinalTorque", "STEP_TorqueTarget", "STEP_TorqueMinTolerance",
     "STEP_TorqueMaxTolerance"}

\* variant: the minimum is overwritten and the maximum keeps its value
SwapLosesMin(r) ==
    IF Gt(r.STEP_TorqueMinTolerance, r.STEP_TorqueMaxTolerance)
    THEN [r EXCEPT !.STEP_TorqueMinTolerance = r.STEP_TorqueMaxTolerance]
    ELSE r

\* _swap_min_gt_max on one row
SwapMinGtMax(r) ==
    IF Gt(r.STEP_TorqueMinTolerance, r.STEP_TorqueMaxTolerance)
    THEN [r EXCEPT !.STEP_TorqueMinTolerance = r.STEP_TorqueMaxTolerance,
                   !.STEP_TorqueMaxTolerance = r.STEP_TorqueMinTolerance]
    ELSE r

\* zero_mask of _drop_zero_block_rows
ZeroBlock(r) == EqCell(r.STEP_TorqueTarget, 0) /\ EqCell(r.STEP_TorqueMinTolerance, 0)
MissingEssential(r) == \E c \in EssentialCols : r[c] = NA

\* round(2) of a cell in thousandths: to the nearest hundredth, halves to
\* the even one
Round2(x) ==
    IF x = NA THEN NA
    ELSE LET q == x \div 10
             rem == x % 10
         IN  IF rem < 5 THEN 10 * q
             ELSE IF rem > 5 THEN 10 * (q + 1)
             ELSE IF q % 2 = 0 THEN 10 * q ELSE 10 * (q + 1)

\* the row after _add_ok_nok_column, _add_quality_status and
\* _finalize_dataframe (rename, round)
SilverRow(r) ==
    [id |-> r.id,
     STEP_ID |-> r.STEP_ID,
     TorqueTarget |-> Round2(r.STEP_TorqueTarget),
     TorqueMinTolerance |-> Round2(r.STEP_TorqueMinTolerance),
     TorqueMaxTolerance |-> Round2(r.STEP_TorqueMaxTolerance),
     FinalTorque |-> Round2(r.RES_FinalTorque),
     Torque_Result |->
        IF Ge(r.RES_FinalTorque, r.STEP_TorqueMinTolerance)
           /\ Ge(r.STEP_TorqueMaxTolerance, r.RES_FinalTorque) THEN "OK" ELSE "NOK",
     Quality_Status |->
        IF MissingEssential(r) \/ EqCell(r.STEP_TorqueMinTolerance, r.STEP_TorqueMaxTolerance)
        THEN "REVIEW_NEEDED" ELSE "OK"]

\* the semantic check of validate_silver_df
SilverInvalid(rws) ==
    \E i \in DOMAIN rws : Gt(rws[i].TorqueMinTolerance, rws[i].TorqueMaxTolerance)

\* clean_tightening_df(df_raw, drop_zero_block=...): the silver rows, the
\* report and the error raised; a row keeps the index of its raw row in id
clean_tightening_df(df_raw, drop_zero_block) ==
    LET Result(err, rws, rep) ==
            [n |-> 1, op |-> "clean", drop_zero_block |-> drop_zero_block,
             raised |-> err, rows |-> rws, report |-> rep]
        NoReport == [rows_in |-> 0, rows_out |-> 0, swapped_min_max |-> 0,
                     dropped_zero_block |-> 0, dropped_missing_essentials |-> 0]
    IN  IF MissingCols(RawRequired, df_raw) # <<>> THEN Result("ValueError", <<>>, NoReport)
        ELSE LET indexed == [i \in 1..Len(df_raw.rows) |-> df_raw.rows[i] @@ [id |-> i]]
                 swapped == Len(SelectSeq(indexed, LAMBDA r :
                                Gt(r.STEP_TorqueMinTolerance, r.STEP_TorqueMaxTolerance)))
                 after_swap == SeqMap(SwapMinGtMax, indexed)
                 kept == IF drop_zero_block
                         THEN SelectSeq(after_swap, LAMBDA r : ~ZeroBlock(r))
                         ELSE after_swap
                 complete == SelectSeq(kept, LAMBDA r : ~MissingEssential(r))
                 out == SeqMap(SilverRow, complete)
                 rep == [rows_in |-> Len(indexed), rows_out |-> Len(out),
                         swapped_min_max |-> swapped,
                         dropped_zero_block |-> Len(after_swap) - Len(kept),
                         dropped_missing_essentials |-> Len(kept) - Len(complete)]
             IN  IF SilverInvalid(out) THEN Result("ValueError", <<>>, rep)
                 ELSE Result("", out, rep)

\* raw tables: tolerances in either order, equal, missing, closer than a
\* hundredth, and a zero block
RawTolPairs ==
    {<<8000, 12000>>, <<12000, 8000>>, <<8000, 8000>>, <<0, 5000>>, <<5000, 0>>,
     <<8004, 8000>>, <<8000, 8014>>, <<NA, 8000>>}
RawRow(target, tol, final) ==
    [STEP_ID |-> 1, STEP_TorqueTarget |-> target,
     STEP_TorqueMinTolerance |-> tol[1], STEP_TorqueMaxTolerance |-> tol[2],
     RES_FinalTorque |-> final]
RawRows == {RawRow(t, tol, f) : t \in {0, 10000}, tol \in RawTolPairs, f \in {10000, NA}}
RawTables ==
    {DF(RawRequired, r) : r \in SeqsUpTo(RawRows, MaxRawRows)}
        \cup {DF(<<"STEP_ID">>, <<[STEP_ID |-> 1]>>)}

-----------------------------------------------------------------------------
(* data/io/gold.py: the files of a month *)

\* calls of the two monthly builds in one run
MaxGoldCalls == 3

TierArgs == {"core", "recurring", "all"}
\* _tier_validate: the tier, "" when it is refused
TierValidate(tier) == IF tier \in {"core", "recurring"} THEN tier ELSE ""

\* the files of one month (year, month and baseline window fixed)
GoldKinds == {"spc_points", "spc_alerts", "spc_limits", "capability", "_meta"}
GoldPath(kind, tier) == [kind |-> kind, tier |-> tier]
gold_meta_path(tier) == GoldPath("_meta", tier)
GoldPaths == {GoldPath(k, t) : k \in GoldKinds, t \in {"core", "recurring"}}
\* a file of the month: the call that wrote it and, for a meta file, its
\* "version" entry
NoGoldFile == [exists |-> FALSE, at |-> 0, version |-> ""]
GoldFile(n, version) == [exists |-> TRUE, at |-> n, version |-> version]

\* the silver tables behind the builds
GoldBaseline == DF(CapNeed, <<CapRow(1, 1, 0, NominalTol), CapRow(1, 2, 2, NominalTol)>>)
GoldEval == DF(SpcColumns, <<SpcRow(1, 1, 0), SpcRow(1, 2, 7)>>)
\* pd.read_parquet(p, columns=cols) of a silver table
ReadColumns(df, cols) ==
    IF NoneOrEmpty(df) THEN df ELSE DF(cols, Project(df.rows, Range(cols)))
\* _concat_silver_dirs: pd.DataFrame() when nothing was read
ConcatSilver(df, cols) == IF NoneOrEmpty(df) THEN EmptyDF ELSE ReadColumns(df, cols)

\* the value of an expression, computed once: the element of its singleton
Only(S) == CHOOSE x \in S : TRUE

\* compute_imr_limits, score_imr_points and build_spc_alerts_from_points in
\* turn, each on the result of the one before
SpcTables(base, e, mp) ==
    Only(UNION {UNION {{[limits |-> l, points |-> p, alerts |-> a] :
                          a \in {build_spc_alerts_from_points(p.df)}} :
                       p \in {score_imr_points(e, l.df)}} :
                l \in {compute_imr_limits(base, mp)}})

\* out_meta after build_capability_v1_for_month has written it
CapabilityMeta(old, n) == GoldFile(n, "capability_v1")

\* build_spc_v2_for_month(tier, force) as call number n
build_spc_v2_for_month(files, base, ev, mp, tier_arg, force, n) ==
    LET tier == TierValidate(tier_arg)
        Out(k) == GoldPath(k, tier)
        Outcome(err, fs, built, lim, pts, al) ==
            [files |-> fs, built |-> built, limits |-> lim, points |-> pts, alerts |-> al,
             call |-> [n |-> n, op |-> "build_spc", tier |-> tier_arg, force |-> force,
                       raised |-> err]]
        Nothing(err) == Outcome(err, files, FALSE, NoneDF, NoneDF, NoneDF)
    IN  IF tier = "" THEN Nothing("ValueError")
        ELSE IF (\A k \in {"spc_points", "spc_alerts", "spc_limits", "_meta"} : files[Out(k)].exists)
                /\ ~force
             THEN Nothing("")
        ELSE LET e == ReadColumns(ev, SpcColumns)
             IN
             IF NoneOrEmpty(e) THEN Nothing("FileNotFoundError")
             ELSE Only({IF t.limits.raised # <<>> \/ t.points.raised # <<>>
                           \/ t.alerts.raised # <<>>
                        THEN Nothing("KeyError")
                        ELSE Outcome("",
                                 [files EXCEPT ![Out("spc_limits")] = GoldFile(n, ""),
                                               ![Out("spc_points")] = GoldFile(n, ""),
                                               ![Out("spc_alerts")] = GoldFile(n, ""),
                                               ![Out("_meta")] = GoldFile(n, "spc_v2_imr")],
                                 TRUE, t.limits.df, t.points.df, t.alerts.df) :
                        t \in {SpcTables(b, x, mp) :
                                  b \in {ConcatSilver(base, SpcColumns)}, x \in {e}}})

\* build_capability_v1_for_month(tier, force) as call number n
build_capability_v1_for_month(files, base, mp, tier_arg, force, n) ==
    LET tier == TierValidate(tier_arg)
        out_cap == GoldPath("capability", tier)
        out_meta == gold_meta_path(tier)
        Outcome(err, fs, built, cap) ==
            [files |-> fs, built |-> built, cap |-> cap,
             call |-> [n |-> n, op |-> "build_capability", tier |-> tier_arg,
                       force |-> force, raised |-> err]]
        Nothing(err) == Outcome(err, files, FALSE, NoneDF)
    IN  IF tier = "" THEN Nothing("ValueError")
        ELSE IF files[out_cap].exists /\ files[out_meta].exists /\ ~force THEN Nothing("")
        ELSE Only({IF cap.raised # <<>> THEN Nothing("KeyError")
                   ELSE Outcome("",
                            [files EXCEPT ![out_cap] = GoldFile(n, ""),
                                          ![out_meta] = CapabilityMeta(files[out_meta], n)],
                            TRUE, cap.df) :
                   cap \in {compute_capability_v1(b, mp, NA) :
                              b \in {ConcatSilver(base, CapNeed)}}})

-----------------------------------------------------------------------------
(* data/loader.py: presence classes and the tiers of a month *)

\* step ids of the baseline
MaxPresenceSteps == 2
PresenceSteps == 1..MaxPresenceSteps

\* baseline_months: the months before the evaluated one
BaselineMonths == 12

\* the defaults of the presence parameters, one set per builder
SpcCoreDefaults ==
    [min_points_per_month |-> 30, min_total_points |-> 300,
     recurring_months |-> 6, core_months |-> 12]
SpcRecurringDefaults ==
    [min_points_per_month |-> 30, min_total_points |-> 300,
     recurring_months |-> 6, core_months |-> 11]
CapabilityCoreDefaults ==
    [min_points_per_month |-> 30, min_total_points |-> 300,
     recurring_months |-> 6, core_months |-> 11]

\* the rows of one step in the baseline, as the number of rows with a
\* parseable DateTime in each of the baseline months: k months of c rows,
\* the others of 29 rows; or no row at all
MonthRows(k, c, few) == [m \in 1..BaselineMonths |-> IF m <= k THEN c ELSE few]
StepBaselines ==
    {MonthRows(k, c, 29) : k \in 0..BaselineMonths, c \in {30, 50}}
        \cup {MonthRows(0, 0, 0)}
PresenceBaselines == [PresenceSteps -> StepBaselines]

\* x.groupby([step_col, "month"]).size(): the (step, month) pairs with rows
MonthlyCounts(base) ==
    {<<st, m>> \in (DOMAIN base) \X (1..BaselineMonths) : base[st][m] > 0}
\* monthly_counts[n_points >= min_points_per_month]
MonthlyValid(base, min_points_per_month) ==
    {sm \in MonthlyCounts(base) : base[sm[1]][sm[2]] >= min_points_per_month}

RECURSIVE SumPoints(_, _)
\* total_points = ("n_points", "sum") over the valid months ms of a step
SumPoints(row, ms) ==
    IF ms = {} THEN 0
    ELSE LET m == CHOOSE x \in ms : TRUE IN row[m] + SumPoints(row, ms \ {m})

\* classify_presence(row)
classify_presence(n_months, total_points, prm) ==
    IF n_months >= prm.core_months /\ total_points >= prm.min_total_points THEN "CORE"
    ELSE IF n_months >= prm.recurring_months /\ n_months < prm.core_months
            /\ total_points >= prm.min_total_points THEN "RECURRING"
    ELSE IF n_months >= 2 THEN "INTERMITTENT"
    ELSE "TEMPORARY"

\* _compute_presence_classes(df_base, **prm): the summary, one record per
\* step that has a valid month
compute_presence_classes(base, prm) ==
    LET valid == MonthlyValid(base, prm.min_points_per_month)
        steps == {sm[1] : sm \in valid}
        MonthsOf(st) == {sm[2] : sm \in {x \in valid : x[1] = st}}
    IN  [st \in steps |->
            LET n_months == Cardinality(MonthsOf(st))
                total_points == SumPoints(base[st], MonthsOf(st))
            IN  [n_months |-> n_months, total_points |-> total_points,
                 presence_class |-> classify_presence(n_months, total_points, prm)]]

\* presence.loc[presence["presence_class"] == cls, "STEP_ID"].tolist()
StepIdsOfClass(presence, cls) ==
    {st \in DOMAIN presence : presence[st].presence_class = cls}

\* the builds of the month
MonthBuilds == {"spc_core", "spc_recurring", "capability_core"}
NotBuilt == [done |-> FALSE, step_ids |-> {}]
\* build_*_for_month(step_ids=ids, force=force): the idempotence return,
\* else the build over the rows of the step ids
BuildWith(old, ids, force) ==
    IF old.done /\ ~force THEN old ELSE [done |-> TRUE, step_ids |-> ids]

build_spc_v2_core_for_month(lk, force) ==
    LET presence == compute_presence_classes(lk.silver, SpcCoreDefaults)
        core_step_ids == StepIdsOfClass(presence, "CORE")
    IN  [lk EXCEPT !.built["spc_core"] = BuildWith(@, core_step_ids, force)]

build_spc_v2_recurring_for_month(lk, force) ==
    LET presence == compute_presence_classes(lk.silver, SpcRecurringDefaults)
        recurring_step_ids == StepIdsOfClass(presence, "RECURRING")
    IN  [lk EXCEPT !.built["spc_recurring"] = BuildWith(@, recurring_step_ids, force)]

build_capability_v1_core_for_month(lk, force) ==
    LET presence == compute_presence_classes(lk.silver, CapabilityCoreDefaults)
        core_step_ids == StepIdsOfClass(presence, "CORE")
    IN  [lk EXCEPT !.built["capability_core"] = BuildWith(@, core_step_ids, force)]

-----------------------------------------------------------------------------
(* analysis/features/temporal.py: rows since the last event *)

\* rows of the table given to add_rows_since_last_event
MaxEventRows == 4

\* key_cols = ["STEP_ID"], event_col = "label"
EventColumns == <<"STEP_ID", "label">>
EventRow(k, v) == [STEP_ID |-> k, label |-> v]
\* the tables with at least one row; a key or a label may be missing
EventTables ==
    {DF(EventColumns, rws) :
        rws \in UNION {[1..n -> {EventRow(k, v) : k \in {1, 2, NA}, v \in {0, 1, NA}}] :
                          n \in 1..MaxEventRows}}
EventValues == {0, 1}

\* f"rows_since_last_{event_col}{event_value}"
SinceLastColumn(event_value) ==
    IF event_value = 1 THEN "rows_since_last_label1" ELSE "rows_since_last_label0"

RECURSIVE SinceLastFrom(_, _, _, _, _)
\* the loop of _since_last from position i on: last is the position of the
\* last event (NA for None), res the results so far
SinceLastFrom(vals, event_value, i, last, res) ==
    IF i > Len(vals) THEN res
    ELSE IF vals[i] # NA /\ vals[i] = event_value
         THEN SinceLastFrom(vals, event_value, i + 1, i, Append(res, 0))
         ELSE SinceLastFrom(vals, event_value, i + 1, last,
                            Append(res, IF last # NA THEN i - last ELSE NA))

\* variant: last stays at the group's first event
SinceLastKeepsFirst(vals, event_value) ==
    LET first == {i \in 1..Len(vals) : vals[i] # NA /\ vals[i] = event_value}
    IN  [i \in 1..Len(vals) |->
            IF vals[i] # NA /\ vals[i] = event_value THEN 0
            ELSE IF \E j \in first : j < i
                 THEN i - (CHOOSE j \in first : \A x \in first : j <= x)
                 ELSE NA]

\* _since_last(s)
SinceLast(vals, event_value) == SinceLastFrom(vals, event_value, 1, NA, <<>>)

\* out = df.copy(): the table the caller passed, after the call
EventInputAfterCall(df) == df

\* add_rows_since_last_event(df, key_cols=["STEP_ID"], event_col="label",
\* event_value): groupby drops the rows without a key, the result of each
\* group goes back to its rows by index, the other rows get no value
add_rows_since_last_event(df, event_value) ==
    LET rws == df.rows
        Positions(k) == GroupIdx(rws, k)
        Scan(k) == SinceLast(SeqMap(LAMBDA i : rws[i].label, Positions(k)), event_value)
        PlaceOf(i) == CHOOSE p \in 1..Len(Positions(rws[i].STEP_ID)) :
                          Positions(rws[i].STEP_ID)[p] = i
        ValueAt(i) == IF rws[i].STEP_ID = NA THEN NA ELSE Scan(rws[i].STEP_ID)[PlaceOf(i)]
        col == SinceLastColumn(event_value)
    IN  DF(Append(df.columns, col),
           [i \in 1..Len(rws) |->
               [c \in {"STEP_ID", "label", col} |->
                   IF c = col THEN ValueAt(i) ELSE rws[i][c]]])

-----------------------------------------------------------------------------
(* The calls.  pc = "idle" before the first call of a run. *)

Outputs == <<df_limits, df_points, df_alerts, df_cap>>

\* no file of the lake is looked at, no other function has been called
NoLake == <<>>
NoCall == [n |-> 0, op |-> "none"]

NoOutputs ==
    /\ lake = NoLake
    /\ call = NoCall
    /\ pc = "idle"
    /\ raised = <<>>
    /\ df_limits = NoneDF
    /\ df_points = NoneDF
    /\ df_alerts = NoneDF
    /\ df_cap = NoneDF

\* the monthly build (data/io/gold.py, build_spc_v2_for_month)
Init ==
    /\ NoOutputs
    /\ df_base \in BuildBaselines
    /\ min_points \in BuildMinPoints
    /\ min_mr = NA
    /\ df_eval = NoneDF

\* the limit estimator on its own
InitLimits ==
    /\ NoOutputs
    /\ df_base \in LimBaselines
    /\ min_points \in MinPointsSet
    /\ min_mr = NA
    /\ df_eval = NoneDF

\* the capability estimator on its own
InitCap ==
    /\ NoOutputs
    /\ df_base \in CapBaselines
    /\ min_points \in CapMinPoints
    /\ min_mr \in MinMrSet
    /\ df_eval = NoneDF

\* the state of the run after a call that raised
Failed(next) ==
    CASE next = "limits" -> "limits_failed"
      [] next = "points" -> "points_failed"
      [] next = "alerts" -> "alerts_failed"
      [] next = "capability" -> "capability_failed"

After(res, next) == IF res.raised = <<>> THEN next ELSE Failed(next)

\* variant: the timestamps are converted in the caller's table
BaselineConvertedInPlace(df) ==
    IF NoneOrEmpty(df) \/ "DateTime" \notin Range(df.columns) THEN df
    ELSE DF(df.columns, ToDatetime(df.rows))

\* the caller's table after compute_imr_limits: the function works on
\* x = df_baseline[[...]].dropna().copy()
BaselineAfterCall(df) == df

ComputeLimits ==
    /\ pc = "idle"
    /\ LET res == compute_imr_limits(df_base, min_points)
       IN  /\ raised' = res.raised
           /\ df_limits' = res.df
           /\ pc' = After(res, "limits")
    /\ df_base' = BaselineAfterCall(df_base)
    /\ UNCHANGED <<lake, call, min_points, min_mr, df_eval, df_points, df_alerts, df_cap>>

\* a second call on the same table with the same min_points
ComputeLimitsAgain ==
    /\ pc = "limits"
    /\ LET res == compute_imr_limits(df_base, min_points)
       IN  /\ raised' = res.raised
           /\ df_limits' = res.df
           /\ pc' = IF res.raised = <<>> THEN "limits_again" ELSE "limits_failed"
    /\ df_base' = BaselineAfterCall(df_base)
    /\ UNCHANGED <<lake, call, min_points, min_mr, df_eval, df_points, df_alerts, df_cap>>

ScorePoints ==
    /\ pc = "limits"
    /\ \E e \in Evals :
          LET res == score_imr_points(e, df_limits)
          IN  /\ df_eval' = e
              /\ raised' = res.raised
              /\ df_points' = res.df
              /\ pc' = After(res, "points")
    /\ UNCHANGED <<lake, call, df_base, min_points, min_mr, df_limits, df_alerts, df_cap>>

BuildAlerts ==
    /\ pc = "points"
    /\ LET res == build_spc_alerts_from_points(df_points)
       IN  /\ raised' = res.raised
           /\ df_alerts' = res.df
           /\ pc' = After(res, "alerts")
    /\ UNCHANGED <<lake, call, df_base, min_points, min_mr, df_eval, df_limits, df_points, df_cap>>

ComputeCapability ==
    /\ pc = "idle"
    /\ LET res == compute_capability_v1(df_base, min_points, min_mr)
       IN  /\ raised' = res.raised
           /\ df_cap' = res.df
           /\ pc' = After(res, "capability")
    /\ UNCHANGED <<lake, call, df_base, min_points, min_mr, df_eval, df_limits, df_points, df_alerts>>

\* one operation called directly on a table of the caller
InitDirect ==
    /\ lake = NoLake
    /\ call = NoCall
    /\ pc = "idle"
    /\ raised = <<>>
    /\ \E t \in DirectTables : df_base = t /\ df_eval = t /\ df_points = t
    /\ df_limits \in DirectLimits
    /\ min_points \in BuildMinPoints
    /\ min_mr = NA
    /\ df_alerts = NoneDF
    /\ df_cap = NoneDF

ScoreDirect ==
    /\ pc = "idle"
    /\ LET res == score_imr_points(df_eval, df_limits)
       IN  /\ raised' = res.raised
           /\ df_points' = res.df
           /\ pc' = After(res, "points")
    /\ UNCHANGED <<lake, call, df_base, min_points, min_mr, df_eval, df_limits, df_alerts, df_cap>>

AlertsDirect ==
    /\ pc = "idle"
    /\ LET res == build_spc_alerts_from_points(df_points)
       IN  /\ raised' = res.raised
           /\ df_alerts' = res.df
           /\ pc' = After(res, "alerts")
    /\ UNCHANGED <<lake, call, df_base, min_points, min_mr, df_eval, df_limits, df_points, df_cap>>

Next == ComputeLimits \/ ScorePoints \/ BuildAlerts

Spec == Init /\ [][Next]_vars

NextLimits == ComputeLimits \/ ComputeLimitsAgain

SpecLimits == InitLimits /\ [][NextLimits]_vars

NextCap == ComputeCapability

SpecCap == InitCap /\ [][NextCap]_vars

\* the bronze layer: CSV files ingested into an empty lake
NoTables ==
    /\ pc = "idle" /\ raised = <<>>
    /\ df_base = NoneDF /\ df_eval = NoneDF
    /\ min_points = 1 /\ min_mr = NA
    /\ df_limits = NoneDF /\ df_points = NoneDF /\ df_alerts = NoneDF /\ df_cap = NoneDF
UnchangedTables ==
    UNCHANGED <<pc, raised, df_base, min_points, min_mr,
                df_eval, df_limits, df_points, df_alerts, df_cap>>

InitBronze ==
    /\ NoTables
    /\ \E csvs \in [Stems -> CsvStates] :
          lake = [csv |-> csvs, files |-> [p \in BronzePaths |-> NoFile]]
    /\ call = NoCall

Ingest ==
    /\ call.n < MaxIngestCalls
    /\ \E csv \in Stems, force \in BOOLEAN :
          LET res == ingest_csv_to_bronze(lake, csv, force, call.n + 1)
          IN  lake' = res.lake /\ call' = res.call
    /\ UnchangedTables

NextBronze == Ingest

SpecBronze == InitBronze /\ [][NextBronze]_vars

\* the silver cleaning of one raw table
InitClean ==
    /\ pc = "idle" /\ raised = <<>>
    /\ df_base \in RawTables
    /\ df_eval = NoneDF
    /\ min_points = 1 /\ min_mr = NA
    /\ df_limits = NoneDF /\ df_points = NoneDF /\ df_alerts = NoneDF /\ df_cap = NoneDF
    /\ lake = NoLake
    /\ call = NoCall

Clean ==
    /\ call.op = "none"
    /\ \E drop_zero_block \in BOOLEAN : call' = clean_tightening_df(df_base, drop_zero_block)
    /\ UNCHANGED lake
    /\ UnchangedTables

NextClean == Clean

SpecClean == InitClean /\ [][NextClean]_vars

\* the gold builds of one month over the silver tables of the lake
InitGold ==
    /\ pc = "idle" /\ raised = <<>>
    /\ df_base \in {GoldBaseline, NoneDF}
    /\ df_eval \in {GoldEval, NoneDF}
    /\ min_points \in BuildMinPoints /\ min_mr = NA
    /\ df_limits = NoneDF /\ df_points = NoneDF /\ df_alerts = NoneDF /\ df_cap = NoneDF
    /\ lake = [p \in GoldPaths |-> NoGoldFile]
    /\ call = NoCall

BuildSpc ==
    /\ call.n < MaxGoldCalls
    /\ \E tier \in TierArgs, force \in BOOLEAN :
          \E res \in {build_spc_v2_for_month(lake, df_base, df_eval, min_points,
                                                tier, force, call.n + 1)} :
              /\ lake' = res.files
              /\ call' = res.call
              /\ IF res.built
                 THEN df_limits' = res.limits /\ df_points' = res.points
                      /\ df_alerts' = res.alerts
                 ELSE UNCHANGED <<df_limits, df_points, df_alerts>>
    /\ UNCHANGED <<pc, raised, df_base, min_points, min_mr, df_eval, df_cap>>

BuildCapability ==
    /\ call.n < MaxGoldCalls
    /\ \E tier \in TierArgs, force \in BOOLEAN :
          \E res \in {build_capability_v1_for_month(lake, df_base, min_points,
                                                       tier, force, call.n + 1)} :
              /\ lake' = res.files
              /\ call' = res.call
              /\ df_cap' = IF res.built THEN res.cap ELSE df_cap
    /\ UNCHANGED <<pc, raised, df_base, min_points, min_mr, df_eval,
                   df_limits, df_points, df_alerts>>

NextGold == BuildSpc \/ BuildCapability

SpecGold == InitGold /\ [][NextGold]_vars

\* the tier builds of one month over one baseline
InitPresence ==
    /\ NoTables
    /\ \E base \in PresenceBaselines :
          lake = [silver |-> base, built |-> [b \in MonthBuilds |-> NotBuilt]]
    /\ call = NoCall

BuildSpcCore ==
    /\ \E force \in BOOLEAN : lake' = build_spc_v2_core_for_month(lake, force)
    /\ call' = [n |-> 0, op |-> "build_spc_v2_core_for_month"]
    /\ UnchangedTables

BuildSpcRecurring ==
    /\ \E force \in BOOLEAN : lake' = build_spc_v2_recurring_for_month(lake, force)
    /\ call' = [n |-> 0, op |-> "build_spc_v2_recurring_for_month"]
    /\ UnchangedTables

BuildCapabilityCore ==
    /\ \E force \in BOOLEAN : lake' = build_capability_v1_core_for_month(lake, force)
    /\ call' = [n |-> 0, op |-> "build_capability_v1_core_for_month"]
    /\ UnchangedTables

NextPresence == BuildSpcCore \/ BuildSpcRecurring \/ BuildCapabilityCore

SpecPresence == InitPresence /\ [][NextPresence]_vars

\* one call of add_rows_since_last_event on a table
InitEvents ==
    /\ pc = "idle" /\ raised = <<>>
    /\ df_base \in EventTables
    /\ df_eval = NoneDF
    /\ min_points = 1 /\ min_mr = NA
    /\ df_limits = NoneDF /\ df_points = NoneDF /\ df_alerts = NoneDF /\ df_cap = NoneDF
    /\ lake = NoLake
    /\ call = NoCall

AddRowsSinceLastEvent ==
    /\ call.op = "none"
    /\ \E event_value \in EventValues :
          call' = [n |-> 0, op |-> "add_rows_since_last_event",
                   event_value |-> event_value,
                   out |-> add_rows_since_last_event(df_base, event_value)]
    /\ df_base' = EventInputAfterCall(df_base)
    /\ UNCHANGED <<pc, raised, min_points, min_mr, df_eval,
                   df_limits, df_points, df_alerts, df_cap, lake>>

NextEvents == AddRowsSinceLastEvent

SpecEvents == InitEvents /\ [][NextEvents]_vars

NextDirect == ComputeLimits \/ ComputeCapability \/ ScoreDirect \/ AlertsDirect

SpecDirect == InitDirect /\ [][NextDirect]_vars

-----------------------------------------------------------------------------
(* Properties *)

Scored == pc \in {"points", "alerts"}
Points == df_points.rows

\* the rows of table df that survive dropna / to_datetime, by position
ValidIdx(df, cols) ==
    {i \in DOMAIN df.rows :
        /\ \A c \in cols : df.rows[i][c] # NA
        /\ df.rows[i].DateTime # BAD}
ValidIdxOf(df, cols, k) == {i \in ValidIdx(df, cols) : df.rows[i].STEP_ID = k}

\* position i is the first row of its group in rws
FirstOfGroup(rws, i) == \A j \in 1..(i - 1) : rws[j].STEP_ID # rws[i].STEP_ID

\* C1: every scored point carries the rule given by the precedence
\* MR_3SIGMA > I_3SIGMA > OK: MR_3SIGMA when is_ooc_mr is set (with or
\* without is_ooc_i), I_3SIGMA when only is_ooc_i is set, OK when neither is.
C1_RulePrecedence ==
    Scored =>
        \A i \in DOMAIN Points :
            LET r == Points[i] IN
            /\ (r.is_ooc_i = 1 /\ r.is_ooc_mr = 1) => r.rule = "MR_3SIGMA"
            /\ (r.is_ooc_i = 0 /\ r.is_ooc_mr = 1) => r.rule = "MR_3SIGMA"
            /\ (r.is_ooc_i = 1 /\ r.is_ooc_mr = 0) => r.rule = "I_3SIGMA"
            /\ (r.is_ooc_i = 0 /\ r.is_ooc_mr = 0) => r.rule = "OK"

\* a scored table with a point out of control on both charts (tagged
\* MR_3SIGMA) beside a point out of control on the individuals chart only
C1_Witness ==
    /\ pc = "points"
    /\ \E i \in DOMAIN Points :
          Points[i].is_ooc_i = 1 /\ Points[i].is_ooc_mr = 1 /\ Points[i].rule = "MR_3SIGMA"
    /\ \E i \in DOMAIN Points : Points[i].is_ooc_i = 1 /\ Points[i].is_ooc_mr = 0

\* the first valid row of group k in the evaluation table, in stable time
\* order: the smallest timestamp, and among equal timestamps the earliest row
FirstEvalIdx(k) ==
    LET idx == ValidIdxOf(df_eval, Range(SpcColumns), k)
    IN  CHOOSE i \in idx :
            \A j \in idx :
                \/ df_eval.rows[i].DateTime < df_eval.rows[j].DateTime
                \/ df_eval.rows[i].DateTime = df_eval.rows[j].DateTime /\ i <= j

\* C2: in the scored table the first row of every group is the first point
\* of the group's evaluation series in stable time order; its MR is
\* undefined and its is_ooc_mr is false, whatever the limits are.
C2_FirstPointNoMR ==
    Scored =>
        \A i \in DOMAIN Points :
            FirstOfGroup(Points, i) =>
                LET r == Points[i]
                    f == df_eval.rows[FirstEvalIdx(r.STEP_ID)]
                IN  /\ ~r.MR.def
                    /\ r.is_ooc_mr = 0
                    /\ r.DateTime = f.DateTime
                    /\ r.FinalTorque = f.FinalTorque

\* a group scored against UCL_MR = 0 and a group scored against an undefined
\* UCL_MR, the first with a later point whose MR is over the limit
C2_Witness ==
    /\ pc = "points"
    /\ \E i \in DOMAIN Points :
          /\ FirstOfGroup(Points, i)
          /\ Points[i].UCL_MR = FromInt(0)
          /\ \E j \in DOMAIN Points :
                /\ j > i
                /\ Points[j].STEP_ID = Points[i].STEP_ID
                /\ Points[j].is_ooc_mr = 1
    /\ \E i \in DOMAIN Points : FirstOfGroup(Points, i) /\ ~Points[i].UCL_MR.def

\* C3: every record of the limits table has LCL_MR exactly 0.
C3_LclMrZero ==
    pc = "limits" => \A i \in DOMAIN df_limits.rows : df_limits.rows[i].LCL_MR = FromInt(0)

\* C5: the limits table has exactly one record for each group with at
\* least min_points valid baseline rows (group, parseable timestamp and value
\* present), and none for any other group.
C5_LimitsExactlyForLargeGroups ==
    pc = "limits" /\ ~NoneOrEmpty(df_base) =>
        \A k \in Keys :
            LET n == Cardinality(ValidIdxOf(df_base, Range(SpcColumns), k))
                recs == {i \in DOMAIN df_limits.rows : df_limits.rows[i].STEP_ID = k}
            IN  /\ n >= min_points => Cardinality(recs) = 1
                /\ n < min_points => recs = {}
                /\ \A i \in recs : df_limits.rows[i].N = n

\* a baseline where one group is kept and the other has a valid row but is
\* short of min_points and left out
C5_Witness ==
    /\ pc = "limits"
    /\ Len(df_limits.rows) = 1
    /\ \E i \in DOMAIN df_base.rows :
          /\ i \in ValidIdx(df_base, Range(SpcColumns))
          /\ df_base.rows[i].STEP_ID # df_limits.rows[1].STEP_ID

CapRecs == df_cap.rows

\* C4: a capability record of a group none of whose baseline rows has a
\* missing or unparseable cell has N equal to the number of those rows and
\* n_mr = N - 1: the group's first point contributes no moving range.
C4_NmrIsNMinusOne ==
    pc = "capability" =>
        \A i \in DOMAIN CapRecs :
            LET g == CapRecs[i]
                mine == {j \in DOMAIN df_base.rows : df_base.rows[j].STEP_ID = g.STEP_ID}
            IN  mine \subseteq ValidIdx(df_base, Range(CapNeed)) =>
                    g.N = Cardinality(mine) /\ g.n_mr = g.N - 1

\* two groups without a missing cell, both retained: the second group's
\* first point follows a point of the first group with another value
C4_Witness ==
    /\ pc = "capability"
    /\ Len(CapRecs) = 2
    /\ ValidIdx(df_base, Range(CapNeed)) = DOMAIN df_base.rows
    /\ df_base.rows[1].FinalTorque # df_base.rows[2].FinalTorque
    /\ CapRecs[2].n_mr = 0

\* tol_span > 0, std_overall defined and > 0, sigma_within defined and > 0
TolSpanPositive(g) == g.tol_span.def /\ g.tol_span.n > 0
StdOverallPositive(g) == g.std_overall.def /\ g.std_overall.s > 0
SigmaWithinPositive(g) == g.sigma_within.def /\ g.sigma_within.n > 0

\* C6: in every capability record Pp and Ppk are defined exactly when
\* tol_span > 0 and std_overall is defined and positive, Cp and Cpk exactly
\* when tol_span > 0 and sigma_within is defined and positive; the other
\* fields are populated and no error is raised.
C6_ValidityGating ==
    pc = "capability" =>
        /\ raised = <<>>
        /\ \A i \in DOMAIN CapRecs :
              LET g == CapRecs[i] IN
              /\ g.Pp.def <=> (TolSpanPositive(g) /\ StdOverallPositive(g))
              /\ g.Ppk.def <=> (TolSpanPositive(g) /\ StdOverallPositive(g))
              /\ g.Cp.def <=> (TolSpanPositive(g) /\ SigmaWithinPositive(g))
              /\ g.Cpk.def <=> (TolSpanPositive(g) /\ SigmaWithinPositive(g))
              /\ g.N >= 1 /\ g.n_mr >= 0
              /\ g.mean.def /\ g.lsl.def /\ g.usl.def /\ g.tol_span.def
              /\ g.tol_span = RSub(g.usl, g.lsl)

\* a record with positive variance whose tol_span is not positive, with all
\* four indices undefined
C6_Witness ==
    /\ pc = "capability"
    /\ \E i \in DOMAIN CapRecs :
          LET g == CapRecs[i] IN
          /\ ~TolSpanPositive(g)
          /\ StdOverallPositive(g) /\ SigmaWithinPositive(g)
          /\ ~g.Pp.def /\ ~g.Ppk.def /\ ~g.Cp.def /\ ~g.Cpk.def

C7_WitnessDefault ==
    /\ pc = "capability"
    /\ min_mr = NA
    /\ min_points = 1
    /\ CapRecs = <<>>
    /\ \E k \in Keys : Cardinality(ValidIdxOf(df_base, Range(CapNeed), k)) = 1

Alerts == df_alerts.rows

\* the scored rows of group k, and its alert rows
PointsOf(k) == {i \in DOMAIN Points : Points[i].STEP_ID = k}
AlertsOf(k) == {i \in PointsOf(k) : Points[i].is_alert = 1}

\* C8: the alert table always has the columns I_3SIGMA and MR_3SIGMA, also
\* for an empty or None scored table, and a rule that never triggered for a
\* retained group counts 0 in its record.
C8_RuleColumnsAlwaysPresent ==
    pc = "alerts" =>
        /\ {"I_3SIGMA", "MR_3SIGMA"} \subseteq Range(df_alerts.columns)
        /\ \A i \in DOMAIN Alerts :
              \A r \in {"I_3SIGMA", "MR_3SIGMA"} :
                  (\A j \in AlertsOf(Alerts[i].STEP_ID) : Points[j].rule # r)
                      => Alerts[i][r] = 0

\* C9: the alert table has exactly one record per group with at least one
\* alert row and none for a group without; n_points is the number of scored
\* rows of the group and n_alerts the number of its alert rows.
C9_OneRecordPerAlertingGroup ==
    pc = "alerts" =>
        \A k \in Keys :
            LET recs == {i \in DOMAIN Alerts : Alerts[i].STEP_ID = k}
            IN  /\ AlertsOf(k) # {} => Cardinality(recs) = 1
                /\ AlertsOf(k) = {} => recs = {}
                /\ \A i \in recs :
                      /\ Alerts[i].n_points = Cardinality(PointsOf(k))
                      /\ Alerts[i].n_alerts = Cardinality(AlertsOf(k))

\* a group with an alert row and a row in control is summarised, a second
\* scored group without alert rows is left out
C9_Witness ==
    /\ pc = "alerts"
    /\ Len(Alerts) = 1
    /\ Alerts[1].n_alerts < Alerts[1].n_points
    /\ \E i \in DOMAIN Points : Points[i].STEP_ID # Alerts[1].STEP_ID

\* C10: in every alert record first_alert is the earliest and last_alert
\* the latest timestamp among the alert rows of the record's own group, so
\* first_alert <= last_alert and both are timestamps of its alert rows.
C10_AlertSpanFromAlertRows ==
    pc = "alerts" =>
        \A i \in DOMAIN Alerts :
            LET a == Alerts[i]
                ts == {Points[j].DateTime : j \in AlertsOf(a.STEP_ID)}
            IN  /\ a.first_alert \in ts
                /\ a.last_alert \in ts
                /\ \A t \in ts : a.first_alert <= t /\ t <= a.last_alert
                /\ a.first_alert <= a.last_alert

\* a record whose group has a row in control before its only alert, while
\* the other group alerts at an earlier instant
C10_Witness ==
    /\ pc = "alerts"
    /\ Len(Alerts) = 2
    /\ \E i \in DOMAIN Alerts :
          /\ Alerts[i].first_alert = 2
          /\ \E j \in PointsOf(Alerts[i].STEP_ID) :
                Points[j].is_alert = 0 /\ Points[j].DateTime = 1
          /\ \E h \in DOMAIN Alerts : Alerts[h].last_alert = 1

\* a record whose alerts span two instants
C10_WitnessSpan ==
    /\ pc = "alerts"
    /\ \E i \in DOMAIN Alerts : Alerts[i].first_alert < Alerts[i].last_alert

-----------------------------------------------------------------------------
(* Required columns and empty input, one operation called directly *)

SpcNeed == <<"STEP_ID", "DateTime", "FinalTorque">>
AlertsNeed == <<"STEP_ID", "DateTime", "is_alert", "rule">>
\* table df is None, or has no row or no column
Absent(df) == df.isNone \/ df.columns = <<>> \/ df.rows = <<>>
\* the columns of need that table df does not have
Lacking(need, df) == {c \in Range(need) : c \notin Range(df.columns)}
LimitsCalled == pc \in {"limits", "limits_failed"}
CapCalled == pc \in {"capability", "capability_failed"}
ScoreCalled == pc \in {"points", "points_failed"}
AlertsCalled == pc \in {"alerts", "alerts_failed"}

AllLimitsFiltered ==
    /\ Lacking(SpcNeed, df_base) = {}
    /\ \A k \in Keys : Cardinality(ValidIdxOf(df_base, Range(SpcNeed), k)) < min_points
\* every group of the baseline is below a filter of compute_capability
AllCapFiltered ==
    /\ Lacking(CapNeed, df_base) = {}
    /\ \A k \in Keys :
        LET n == Cardinality(ValidIdxOf(df_base, Range(CapNeed), k))
        IN  n < min_points \/ n - 1 < EffectiveMinMr(min_points, min_mr)

\* C13: empty or absent input is never an error. compute_limits and
\* compute_capability return an empty table for an empty or None baseline
\* and when every group is filtered out; score_points returns an empty table
\* when the evaluation table or the limits table is empty or None;
\* aggregate_alerts returns an empty table for an empty or None scored table.
C13_EmptyInputEmptyOutput ==
    /\ LimitsCalled /\ (Absent(df_base) \/ AllLimitsFiltered) =>
            /\ pc = "limits" /\ raised = <<>>
            /\ ~df_limits.isNone /\ IsEmpty(df_limits)
    /\ CapCalled /\ (Absent(df_base) \/ AllCapFiltered) =>
            /\ pc = "capability" /\ raised = <<>>
            /\ ~df_cap.isNone /\ IsEmpty(df_cap)
    /\ ScoreCalled /\ (Absent(df_eval) \/ Absent(df_limits)) =>
            /\ pc = "points" /\ raised = <<>>
            /\ ~df_points.isNone /\ IsEmpty(df_points)
    /\ AlertsCalled /\ Absent(df_points) =>
            /\ pc = "alerts" /\ raised = <<>>
            /\ ~df_alerts.isNone /\ IsEmpty(df_alerts)

\* rows to score and no limits at all: an empty table came back
C13_Witness ==
    /\ pc = "points"
    /\ ~Absent(df_eval)
    /\ df_limits.isNone
    /\ ~df_points.isNone /\ IsEmpty(df_points)

\* a baseline with rows whose only group is below min_points
C13_WitnessFiltered ==
    /\ pc = "limits"
    /\ ~Absent(df_base)
    /\ AllLimitsFiltered
    /\ IsEmpty(df_limits)

-----------------------------------------------------------------------------
(* Scoring against the limits of the monthly build *)

\* the groups that have a limits record
LimitKeys == {df_limits.rows[i].STEP_ID : i \in DOMAIN df_limits.rows}
\* the valid evaluation rows whose group has a limits record, by position
\* the valid rows of the evaluation table, by position; a table without
\* one of the three columns has none
ValidEvalIdx ==
    IF Lacking(SpcNeed, df_eval) # {} THEN {} ELSE ValidIdx(df_eval, Range(SpcNeed))
KeptEvalIdx == {i \in ValidEvalIdx : df_eval.rows[i].STEP_ID \in LimitKeys}
SameObservation(a, b) ==
    a.STEP_ID = b.STEP_ID /\ a.DateTime = b.DateTime /\ a.FinalTorque = b.FinalTorque

\* C14: with the limits of compute_limits, score_points returns exactly one
\* scored point for each valid evaluation row whose group has a limits
\* record and none for any other row: such rows are dropped without error
\* and no evaluation row is duplicated.
C14_OnePointPerKeptRow ==
    Scored =>
        /\ raised = <<>>
        /\ Len(Points) = Cardinality(KeptEvalIdx)
        /\ \A j \in DOMAIN Points : Points[j].STEP_ID \in LimitKeys
        /\ \A i \in KeptEvalIdx :
             Cardinality({j \in DOMAIN Points : SameObservation(Points[j], df_eval.rows[i])})
               = Cardinality({h \in KeptEvalIdx : SameObservation(df_eval.rows[h], df_eval.rows[i])})

\* two limits records, a scored row, and a valid evaluation row of a group
\* without limits that was dropped
C14_Witness ==
    /\ Scored
    /\ Len(Points) >= 1
    /\ \E i \in ValidEvalIdx : df_eval.rows[i].STEP_ID \notin LimitKeys

\* both groups have limits and both are scored
C14_WitnessTwoGroups ==
    /\ Scored
    /\ Cardinality(LimitKeys) = 2
    /\ {Points[j].STEP_ID : j \in DOMAIN Points} = LimitKeys

IsZero(x) == x.def /\ x.n = 0
\* the values of the valid baseline rows of group k
BaseValuesOf(k) ==
    {df_base.rows[i].FinalTorque : i \in ValidIdxOf(df_base, Range(SpcNeed), k)}
\* the limits record has sigma = 0 with both limits on the center
ZeroSigmaRecord(l) ==
    /\ IsZero(l.Sigma)
    /\ l.UCL = l.Xbar /\ l.LCL = l.Xbar
    /\ IsZero(l.UCL_MR)
\* z of scored point p: undefined for a zero or undefined sigma, the
\* quotient otherwise
ZAsSpecified(p) ==
    IF p.Sigma.def /\ p.Sigma.n # 0
    THEN p.z.def /\ RMul(p.z, p.Sigma) = RSub(FromInt(p.FinalTorque), p.Xbar)
    ELSE ~p.z.def

\* C15 as stated: a baseline group whose values are all identical keeps its
\* limits record with sigma = 0 (UCL = LCL = center, UCL_MR = 0), every
\* scored point of such a group has an undefined z, and for sigma # 0
\* z = (value - center) / sigma.
C15_IdenticalValuesZeroSigma ==
    /\ pc \in {"limits", "points", "alerts"} =>
        \A i \in DOMAIN df_limits.rows :
            LET l == df_limits.rows[i]
            IN  Cardinality(BaseValuesOf(l.STEP_ID)) = 1 => ZeroSigmaRecord(l)
    /\ Scored =>
        \A j \in DOMAIN Points :
            /\ ZAsSpecified(Points[j])
            /\ Cardinality(BaseValuesOf(Points[j].STEP_ID)) = 1 => ~Points[j].z.def

\* C15 amended: a baseline group of at least two valid points whose values
\* are all identical keeps its limits record with sigma = 0 (UCL = LCL =
\* center, UCL_MR = 0), and every scored point of such a group has an
\* undefined z; for a defined sigma # 0, z = (value - center) / sigma. A
\* retained group of a single point has an undefined sigma and undefined
\* limits, and its points an undefined z.
C15_ZeroSigmaFromTwoPoints ==
    /\ pc \in {"limits", "points", "alerts"} =>
        \A i \in DOMAIN df_limits.rows :
            LET l == df_limits.rows[i]
            IN  /\ l.N >= 2 /\ Cardinality(BaseValuesOf(l.STEP_ID)) = 1 => ZeroSigmaRecord(l)
                /\ l.N = 1 => ~l.Sigma.def /\ ~l.UCL.def /\ ~l.LCL.def
    /\ Scored =>
        \A j \in DOMAIN Points :
            /\ ZAsSpecified(Points[j])
            /\ Cardinality(BaseValuesOf(Points[j].STEP_ID)) = 1 => ~Points[j].z.def

\* a point off the center of a group whose sigma is 0
C15_Witness ==
    /\ Scored
    /\ \E j \in DOMAIN Points :
          /\ IsZero(Points[j].Sigma)
          /\ Points[j].N >= 2
          /\ FromInt(Points[j].FinalTorque) # Points[j].Xbar
          /\ ~Points[j].z.def
    /\ \E j \in DOMAIN Points : Points[j].z.def /\ Points[j].z.n # 0

\* a < b for two defined numbers
Below(a, b) == a.def /\ b.def /\ a.n * b.d < b.n * a.d

\* C16: for every scored point is_ooc_individual is set exactly when
\* value < LCL or value > UCL, so a value equal to LCL or to UCL is in
\* control; is_ooc_mr is set exactly when MR > UCL_MR, so an MR equal to
\* UCL_MR does not set it.
C16_StrictlyOutsideLimits ==
    Scored =>
        \A j \in DOMAIN Points :
            LET p == Points[j]
                v == FromInt(p.FinalTorque)
            IN  /\ p.is_ooc_i = 1 <=> (Below(v, p.LCL) \/ Below(p.UCL, v))
                /\ p.is_ooc_i \in {0, 1}
                /\ (v = p.LCL \/ v = p.UCL) => p.is_ooc_i = 0
                /\ p.is_ooc_mr = 1 <=> Below(p.UCL_MR, p.MR)
                /\ p.is_ooc_mr \in {0, 1}
                /\ (p.MR.def /\ p.MR = p.UCL_MR) => p.is_ooc_mr = 0

\* a point whose value is on both limits and whose MR is on UCL_MR, in
\* control, next to a point out of control
C16_Witness ==
    /\ Scored
    /\ \E j \in DOMAIN Points :
          /\ FromInt(Points[j].FinalTorque) = Points[j].UCL
          /\ Points[j].MR.def /\ Points[j].MR = Points[j].UCL_MR
          /\ Points[j].is_ooc_i = 0 /\ Points[j].is_ooc_mr = 0
    /\ \E j \in DOMAIN Points : Points[j].is_ooc_i = 1

-----------------------------------------------------------------------------
(* Order of a series and its moving ranges *)

\* the positions S of rows rws in the order of their timestamps, equal
\* timestamps in the order of the positions
InTimeOrder(rws, S) ==
    LET Rank(i) == Cardinality({j \in S :
                        \/ rws[j].DateTime < rws[i].DateTime
                        \/ rws[j].DateTime = rws[i].DateTime /\ j <= i})
    IN  [r \in 1..Cardinality(S) |-> CHOOSE i \in S : Rank(i) = r]
\* |the r-th value - the one before it| along the positions ord of rws
StepOf(rws, ord, r) ==
    IF r = 1 THEN NaN
    ELSE RAbs(FromInt(rws[ord[r]].FinalTorque - rws[ord[r - 1]].FinalTorque))
\* the positions of the scored points of group k, ascending
PointSeqOf(k) == SelectSeq([j \in 1..Len(Points) |-> j], LAMBDA j : Points[j].STEP_ID = k)
\* the evaluation series of group k: positions of its valid rows, in order
EvalSeriesOf(k) ==
    InTimeOrder(df_eval.rows, {i \in ValidEvalIdx : df_eval.rows[i].STEP_ID = k})

\* C17: the MR of a scored point is |value - value of the preceding point
\* of the same group in the evaluation series| and nothing else: it is
\* fixed by the evaluation table alone, whatever the baseline and the limits
\* derived from it, and whatever the points of other groups.
C17_MRFromEvaluationOnly ==
    Scored =>
        \A k \in LimitKeys :
            LET ord == EvalSeriesOf(k)
                pts == PointSeqOf(k)
            IN  /\ Len(pts) = Len(ord)
                /\ \A r \in DOMAIN pts :
                     /\ Points[pts[r]].FinalTorque = df_eval.rows[ord[r]].FinalTorque
                     /\ Points[pts[r]].MR = StepOf(df_eval.rows, ord, r)

\* a point with a moving range that is not its distance to the center of
\* the baseline, while another group is scored too
C17_Witness ==
    /\ Scored
    /\ Cardinality({Points[j].STEP_ID : j \in DOMAIN Points}) = 2
    /\ \E j \in DOMAIN Points :
          /\ Points[j].MR.def /\ Points[j].MR.n # 0
          /\ Points[j].Xbar.def
          /\ Points[j].MR # RAbs(RSub(FromInt(Points[j].FinalTorque), Points[j].Xbar))

\* the mean of the moving ranges along the positions ord of rws
MeanStep(rws, ord) == RMean([r \in 1..Len(ord) |-> StepOf(rws, ord, r)])
\* the baseline series of group k over the columns need
BaseSeriesOf(need, k) == InTimeOrder(df_base.rows, ValidIdxOf(df_base, Range(need), k))

\* C18: in compute_limits, score_points and compute_capability the records
\* of a group are taken by timestamp with a stable sort: records of the same
\* group with equal timestamps keep their input order, and the moving ranges
\* are the absolute differences between consecutive records in that order.
C18_StableTimeOrder ==
    /\ pc = "limits" =>
        \A i \in DOMAIN df_limits.rows :
            LET l == df_limits.rows[i]
            IN  l.MRbar = MeanStep(df_base.rows, BaseSeriesOf(SpcNeed, l.STEP_ID))
    /\ pc = "capability" =>
        \A i \in DOMAIN df_cap.rows :
            LET c == df_cap.rows[i]
            IN  c.mrbar = MeanStep(df_base.rows, BaseSeriesOf(CapNeed, c.STEP_ID))
    /\ pc = "points" =>
        \A k \in LimitKeys :
            LET ord == EvalSeriesOf(k)
                pts == PointSeqOf(k)
            IN  /\ Len(pts) = Len(ord)
                /\ \A r \in DOMAIN pts :
                     /\ Points[pts[r]].DateTime = df_eval.rows[ord[r]].DateTime
                     /\ Points[pts[r]].FinalTorque = df_eval.rows[ord[r]].FinalTorque
                     /\ Points[pts[r]].MR = StepOf(df_eval.rows, ord, r)
                     /\ r > 1 => Points[pts[r - 1]].DateTime <= Points[pts[r]].DateTime

\* rows i < j of table df belong to one group, with equal timestamps and
\* different values
HasTie(df) ==
    \E i, j \in DOMAIN df.rows :
        /\ i < j
        /\ df.rows[i].STEP_ID = df.rows[j].STEP_ID
        /\ df.rows[i].DateTime = df.rows[j].DateTime
        /\ df.rows[i].FinalTorque # df.rows[j].FinalTorque
\* rows i < j of table df belong to one group, the later one first
HasInversion(df) ==
    \E i, j \in DOMAIN df.rows :
        /\ i < j
        /\ df.rows[i].STEP_ID = df.rows[j].STEP_ID
        /\ df.rows[i].DateTime > df.rows[j].DateTime

\* limits of a group of three records given with a tie and out of order
C18_Witness ==
    /\ pc = "limits"
    /\ Lacking(SpcNeed, df_base) = {}
    /\ HasTie(df_base) /\ HasInversion(df_base)
    /\ \E i \in DOMAIN df_limits.rows : df_limits.rows[i].N = 3

\* capability of a group of three records given with a tie and out of order
C18_WitnessCapability ==
    /\ pc = "capability"
    /\ Lacking(CapNeed, df_base) = {}
    /\ HasTie(df_base) /\ HasInversion(df_base)
    /\ \E i \in DOMAIN df_cap.rows : df_cap.rows[i].N = 3

\* three scored points of a group given with a tie and out of order
C18_WitnessPoints ==
    /\ pc = "points"
    /\ Lacking(SpcNeed, df_eval) = {}
    /\ HasTie(df_eval) /\ HasInversion(df_eval)
    /\ Len(Points) = 3

-----------------------------------------------------------------------------
(* Records behind a capability record and a limits record *)

\* C19: compute_capability drops a baseline record only when its group,
\* its timestamp (missing or unparseable) or its value is missing: N, mean
\* and the moving ranges of every capability record are computed over every
\* record of the group that has those three fields, records with a missing
\* lsl or usl included.
C19_ToleranceNotNeededForRecord ==
    pc = "capability" =>
        \A i \in DOMAIN df_cap.rows :
            LET c == df_cap.rows[i]
                idx == ValidIdxOf(df_base, Range(SpcNeed), c.STEP_ID)
                ord == InTimeOrder(df_base.rows, idx)
            IN  /\ c.N = Cardinality(idx)
                /\ c.mean = RMean([r \in 1..Len(ord) |-> FromInt(df_base.rows[ord[r]].FinalTorque)])
                /\ c.mrbar = MeanStep(df_base.rows, ord)

\* the derived columns of limits record l follow from its center and MRbar
DerivedFromMRbar(l) ==
    LET three_sigma == RMul(Rat(3, 1), l.Sigma)
    IN  /\ l.Sigma = RDiv(l.MRbar, Rat(1128, 1000))
        /\ l.UCL = RAdd(l.Xbar, three_sigma)
        /\ l.LCL = RSub(l.Xbar, three_sigma)
        /\ l.UCL_MR = RMul(Rat(3267, 1000), l.MRbar)
\* the counts and means of limits record l are those of the valid baseline
\* rows of its group, taken in time order
AggregatedFromValidRows(l) ==
    LET idx == ValidIdxOf(df_base, Range(SpcNeed), l.STEP_ID)
        ord == InTimeOrder(df_base.rows, idx)
    IN  /\ l.N = Cardinality(idx)
        /\ l.Xbar = RMean([r \in 1..Len(ord) |-> FromInt(df_base.rows[ord[r]].FinalTorque)])
        /\ l.MRbar = MeanStep(df_base.rows, ord)
        /\ l.MRbar.def <=> l.N >= 2
\* LCL <= center <= UCL, at equal distances
CenterBetweenLimits(l) ==
    /\ RGe(l.UCL, l.Xbar) /\ RGe(l.Xbar, l.LCL)
    /\ l.UCL.def /\ l.LCL.def
    /\ RSub(l.UCL, l.Xbar) = RSub(l.Xbar, l.LCL)

\* C20 as stated: for every record of compute_limits, N is the number of
\* valid records of the group, center their mean, MRbar the mean of the N-1
\* absolute consecutive differences in time order, sigma = MRbar / 1.128,
\* UCL = center + 3 sigma, LCL = center - 3 sigma, UCL_MR = 3.267 MRbar;
\* hence LCL <= center <= UCL and UCL - center = center - LCL.
C20_LimitsArithmetic ==
    pc = "limits" =>
        \A i \in DOMAIN df_limits.rows :
            LET l == df_limits.rows[i]
            IN  AggregatedFromValidRows(l) /\ DerivedFromMRbar(l) /\ CenterBetweenLimits(l)

\* C20 amended: the same sums and products for every record; LCL <= center
\* <= UCL and UCL - center = center - LCL for every record with N >= 2; a
\* record with N = 1 has no moving range, and its MRbar, sigma, UCL, LCL and
\* UCL_MR are undefined.
C20_LimitsArithmeticFromTwoPoints ==
    pc = "limits" =>
        \A i \in DOMAIN df_limits.rows :
            LET l == df_limits.rows[i]
            IN  /\ AggregatedFromValidRows(l)
                /\ DerivedFromMRbar(l)
                /\ l.N >= 2 => CenterBetweenLimits(l)
                /\ l.N = 1 => ~l.MRbar.def /\ ~l.Sigma.def /\ ~l.UCL.def
                              /\ ~l.LCL.def /\ ~l.UCL_MR.def

\* a record of two records that became neighbours when the record between
\* them was dropped, with distinct limits
C20_Witness ==
    /\ pc = "limits"
    /\ Len(df_base.rows) = 3
    /\ ValidIdx(df_base, Range(SpcNeed)) = {1, 3}
    /\ \E i \in DOMAIN df_limits.rows :
          /\ df_limits.rows[i].N = 2
          /\ RGt(df_limits.rows[i].UCL, df_limits.rows[i].LCL)

-----------------------------------------------------------------------------
(* The capability indices *)

\* sign(q) * q^2 of a rational q, and the same of a signed root
SignedSq(q) == IF q.def THEN Rat(Sign(q) * q.n * q.n, q.d * q.d) ELSE NaN
SqOf(r) == IF r.def THEN Rat(r.s * r.n, r.d) ELSE NaN
\* the smaller of two defined rationals
MinOf(a, b) == IF Below(b, a) THEN b ELSE a
\* std_overall^2 of capability record g
VarOverall(g) == Rat(g.std_overall.n, g.std_overall.d)

\* C21: whenever defined, Pp = tol_span / (6 std_overall), Ppk = min((usl -
\* mean) / (3 std_overall), (mean - lsl) / (3 std_overall)), and Cp, Cpk are
\* the same with sigma_within = mrbar / 1.128 for std_overall; lsl = 8,
\* usl = 12, mean = 10, std_overall = 1 gives Pp = Ppk = 4/6.
C21_IndexFormulas ==
    pc = "capability" =>
        \A i \in DOMAIN CapRecs :
            LET g == CapRecs[i]
                var9 == RMul(FromInt(9), VarOverall(g))
                sw3 == RMul(FromInt(3), g.sigma_within)
            IN  /\ g.sigma_within = RDiv(g.mrbar, Rat(1128, 1000))
                /\ g.Pp.def =>
                     SqOf(g.Pp) = RDiv(SignedSq(g.tol_span), RMul(FromInt(4), var9))
                /\ g.Ppk.def =>
                     SqOf(g.Ppk) = MinOf(RDiv(SignedSq(RSub(g.usl, g.mean)), var9),
                                         RDiv(SignedSq(RSub(g.mean, g.lsl)), var9))
                /\ g.Cp.def => g.Cp = RDiv(g.tol_span, RMul(FromInt(2), sw3))
                /\ g.Cpk.def =>
                     g.Cpk = MinOf(RDiv(RSub(g.usl, g.mean), sw3),
                                   RDiv(RSub(g.mean, g.lsl), sw3))
                /\ (g.lsl = FromInt(8) /\ g.usl = FromInt(12) /\ g.mean = FromInt(10)
                        /\ g.std_overall.def /\ VarOverall(g) = FromInt(1)) =>
                     /\ g.Pp = Root(1, Rat(16, 36))
                     /\ g.Ppk = Root(1, Rat(16, 36))

\* the record of the example: Pp = Ppk = 4/6
C21_Witness ==
    /\ pc = "capability"
    /\ \E i \in DOMAIN CapRecs :
          /\ CapRecs[i].lsl = FromInt(8) /\ CapRecs[i].usl = FromInt(12)
          /\ CapRecs[i].mean = FromInt(10)
          /\ CapRecs[i].Pp.def /\ SqOf(CapRecs[i].Pp) = Rat(4, 9)
          /\ CapRecs[i].Cp.def

\* a record off the middle of its tolerance: the two sides of Ppk differ
C21_WitnessOffCenter ==
    /\ pc = "capability"
    /\ \E i \in DOMAIN CapRecs :
          /\ CapRecs[i].Ppk.def /\ CapRecs[i].Cpk.def
          /\ RSub(CapRecs[i].usl, CapRecs[i].mean) # RSub(CapRecs[i].mean, CapRecs[i].lsl)

-----------------------------------------------------------------------------
(* The tolerances of a capability record *)

\* the cells of column c observed in the baseline records of group k: the
\* records with group, timestamp and value, where the cell is not missing
ObservedIdx(k, c) ==
    {i \in ValidIdxOf(df_base, Range(SpcNeed), k) : df_base.rows[i][c] # NA}
\* the middle of the cells of column c at the positions S of the baseline
MiddleOf(S, c) ==
    LET rws == df_base.rows
        Rank(i) == Cardinality({j \in S : \/ rws[j][c] < rws[i][c]
                                          \/ rws[j][c] = rws[i][c] /\ j <= i})
        At(r) == rws[CHOOSE i \in S : Rank(i) = r][c]
        n == Cardinality(S)
    IN  IF n = 0 THEN NaN
        ELSE IF n % 2 = 1 THEN FromInt(At((n + 1) \div 2))
        ELSE Rat(At(n \div 2) + At(n \div 2 + 1), 2)
DistinctOf(S, c) == Cardinality({df_base.rows[i][c] : i \in S})

\* C22: in every capability record lsl and usl are the medians of the
\* lower and upper tolerance values observed in the group's baseline,
\* tol_span = usl - lsl, and tol_inconsistent is set exactly when the lower
\* or the upper tolerance took more than one distinct value; varying
\* tolerances raise no error.
C22_ToleranceSummary ==
    pc = "capability" =>
        /\ raised = <<>>
        /\ \A i \in DOMAIN CapRecs :
              LET g == CapRecs[i]
                  lo == ObservedIdx(g.STEP_ID, "TorqueMinTolerance")
                  hi == ObservedIdx(g.STEP_ID, "TorqueMaxTolerance")
              IN  /\ g.lsl = MiddleOf(lo, "TorqueMinTolerance")
                  /\ g.usl = MiddleOf(hi, "TorqueMaxTolerance")
                  /\ g.tol_span = RSub(g.usl, g.lsl)
                  /\ g.tol_inconsistent = 1 <=>
                        \/ DistinctOf(lo, "TorqueMinTolerance") > 1
                        \/ DistinctOf(hi, "TorqueMaxTolerance") > 1

-----------------------------------------------------------------------------
(* Two calls of compute_limits *)

-----------------------------------------------------------------------------
(* Ingestion into the bronze layer *)

\* the call that has just returned follows a call that returned, for the
\* same CSV
SecondIngest == call.op = "ingest" /\ call.raised = "" /\ call'.csv = call.csv
ParquetOf(csv) == bronze_parquet_path(parse_source_stem(csv))
MetaOf(csv) == bronze_meta_path(parse_source_stem(csv))

\* C24: ingest_csv_to_bronze is idempotent: a second call for the same CSV
\* and lake root with force = false returns the same parquet path as the
\* first, the path exists afterwards, and the second call rewrites neither
\* the parquet file nor meta.json; with force = true both are rewritten.
C24_IngestIdempotent ==
    [][call'.n = call.n + 1 /\ call'.raised = "" =>
        /\ call'.ret = ParquetOf(call'.csv)
        /\ lake'.files[call'.ret].exists
        /\ SecondIngest /\ ~call'.force =>
              /\ call'.ret = call.ret
              /\ lake'.files = lake.files
        /\ SecondIngest /\ call'.force =>
              /\ call'.ret = call.ret
              /\ lake'.files[ParquetOf(call'.csv)] = Written(call'.n)
              /\ lake'.files[MetaOf(call'.csv)] = Written(call'.n)]_vars

\* after a forced second call and an unforced third one for the same CSV,
\* both files are those of the second call
C24_Witness ==
    /\ call.n = 3 /\ call.op = "ingest" /\ call.raised = "" /\ ~call.force
    /\ lake.files[ParquetOf(call.csv)] = Written(2)
    /\ lake.files[MetaOf(call.csv)] = Written(2)

-----------------------------------------------------------------------------
(* Tolerances after cleaning *)

Cleaned == call.op = "clean" /\ call.raised = ""
\* the raw row behind silver row o
RawOf(o) == df_base.rows[o.id]
RawSwapped(r) ==
    /\ r.STEP_TorqueMinTolerance # NA /\ r.STEP_TorqueMaxTolerance # NA
    /\ r.STEP_TorqueMinTolerance > r.STEP_TorqueMaxTolerance
SwappedCount == Cardinality({i \in DOMAIN df_base.rows : RawSwapped(df_base.rows[i])})
\* the bounds of silver row o are lo and hi
BoundsAre(o, lo, hi) == o.TorqueMinTolerance = lo /\ o.TorqueMaxTolerance = hi
Ordered(o) ==
    /\ o.TorqueMinTolerance # NA /\ o.TorqueMaxTolerance # NA
    /\ o.TorqueMinTolerance <= o.TorqueMaxTolerance
\* the nearest whole hundredth of a cell in thousandths
Nearest(x) == CHOOSE y \in {10 * ((x \div 10) + d) : d \in {0, 1}} :
                 \A z \in {10 * ((x \div 10) + d) : d \in {0, 1}} :
                    Abs(x - y) < Abs(x - z) \/ (Abs(x - y) = Abs(x - z) /\ y <= z)

\* C25 as stated: after clean_tightening_df every output row has
\* TorqueMinTolerance <= TorqueMaxTolerance: a row whose minimum was greater
\* than its maximum has the two bounds exchanged, every other row keeps its
\* bounds, and the report's swapped count is the number of exchanged rows.
C25_BoundsKeptOrExchanged ==
    Cleaned =>
        /\ \A j \in DOMAIN call.rows :
              LET o == call.rows[j]
                  r == RawOf(o)
              IN  /\ Ordered(o)
                  /\ IF RawSwapped(r)
                     THEN BoundsAre(o, r.STEP_TorqueMaxTolerance, r.STEP_TorqueMinTolerance)
                     ELSE BoundsAre(o, r.STEP_TorqueMinTolerance, r.STEP_TorqueMaxTolerance)
        /\ call.report.swapped_min_max = SwappedCount

\* C25 amended: the same, with the bounds of every output row rounded to
\* two decimals: an exchanged row has the rounded maximum as its minimum and
\* the rounded minimum as its maximum, every other row its own rounded
\* bounds; a table with the required columns is cleaned without error.
C25_BoundsRoundedKeptOrExchanged ==
    /\ call.op = "clean" /\ Lacking(RawRequired, df_base) = {} => call.raised = ""
    /\ Cleaned =>
        /\ \A j \in DOMAIN call.rows :
              LET o == call.rows[j]
                  r == RawOf(o)
              IN  /\ Ordered(o)
                  /\ IF RawSwapped(r)
                     THEN BoundsAre(o, Nearest(r.STEP_TorqueMaxTolerance),
                                       Nearest(r.STEP_TorqueMinTolerance))
                     ELSE BoundsAre(o, Nearest(r.STEP_TorqueMinTolerance),
                                       Nearest(r.STEP_TorqueMaxTolerance))
        /\ call.report.swapped_min_max = SwappedCount

\* the table of the test: 12 over 8 comes out as 8 under 12, next to a row
\* that was in order
C25_Witness ==
    /\ Cleaned
    /\ call.report.swapped_min_max = 1
    /\ \E j \in DOMAIN call.rows :
          /\ RawOf(call.rows[j]).STEP_TorqueMinTolerance = 12000
          /\ RawOf(call.rows[j]).STEP_TorqueMaxTolerance = 8000
          /\ BoundsAre(call.rows[j], 8000, 12000)
    /\ \E j \in DOMAIN call.rows : ~RawSwapped(RawOf(call.rows[j]))

-----------------------------------------------------------------------------
(* Alerts of the scored points *)

\* C26: after score_points and aggregate_alerts every scored point has
\* is_alert set exactly when its rule is not OK, is_alert being the OR of
\* the two out-of-control flags, and every alert record has
\* I_3SIGMA + MR_3SIGMA = n_alerts <= n_points with n_alerts >= 1.
C26_AlertCountsAddUp ==
    /\ Scored =>
        \A j \in DOMAIN Points :
            /\ Points[j].is_alert = 1 <=> Points[j].rule # "OK"
            /\ Points[j].is_alert = 1 <=> (Points[j].is_ooc_i = 1 \/ Points[j].is_ooc_mr = 1)
            /\ Points[j].is_alert \in {0, 1}
    /\ pc = "alerts" =>
        \A i \in DOMAIN Alerts :
            /\ Alerts[i].I_3SIGMA + Alerts[i].MR_3SIGMA = Alerts[i].n_alerts
            /\ Alerts[i].n_alerts <= Alerts[i].n_points
            /\ Alerts[i].n_alerts >= 1

\* a record with an alert of each rule
C26_Witness ==
    /\ pc = "alerts"
    /\ \E i \in DOMAIN Alerts : Alerts[i].I_3SIGMA = 1 /\ Alerts[i].MR_3SIGMA = 1

\* a record with fewer alerts than points
C26_WitnessInControl ==
    /\ pc = "alerts"
    /\ \E i \in DOMAIN Alerts : Alerts[i].n_alerts < Alerts[i].n_points

-----------------------------------------------------------------------------
(* The meta file of a month *)

\* the meta file of tier t holds the SPC build's content
SpcMeta(t) == lake[gold_meta_path(t)].exists /\ lake[gold_meta_path(t)].version = "spc_v2_imr"

\* C27: build_capability_v1_for_month does not overwrite the SPC build's
\* meta file: once the SPC build has written gold_build_meta.json for a
\* tier and month, a later capability build for the same tier and month
\* leaves the content of that file (version spc_v2_imr) unchanged.
C27_CapabilityKeepsSpcMeta ==
    [][\A t \in {"core", "recurring"} :
          (SpcMeta(t) /\ call'.n = call.n + 1 /\ call'.op = "build_capability")
              => lake'[gold_meta_path(t)] = lake[gold_meta_path(t)]]_vars

-----------------------------------------------------------------------------
(* The tiers of a month *)

\* the baseline months in which step st has at least 30 rows
ValidMonthsOf(st) == {m \in 1..BaselineMonths : lake.silver[st][m] >= 30}
\* the rows of step st in those months
ValidPointsOf(st) == SumSeq([m \in 1..BaselineMonths |->
                                IF m \in ValidMonthsOf(st) THEN lake.silver[st][m] ELSE 0])
\* at least recurring_months (6) valid months and min_total_points (300) rows
EligibleStep(st) == Cardinality(ValidMonthsOf(st)) >= 6 /\ ValidPointsOf(st) >= 300
Processed(b) == lake.built[b].step_ids

\* C28: with the default parameters, once the SPC core build and the SPC
\* recurring build of a month have run over the same baseline, every step
\* with at least 6 valid baseline months and at least 300 points has been
\* selected by exactly one of the two builds.
C28_EligibleStepInOneTier ==
    (lake.built["spc_core"].done /\ lake.built["spc_recurring"].done)
        => \A st \in PresenceSteps :
              EligibleStep(st)
                  => (st \in Processed("spc_core")) # (st \in Processed("spc_recurring"))

\* C29: called with defaults on the same baseline, the capability core build
\* passes to the capability build the same set of step ids that the SPC core
\* build passes to the SPC build.
C29_CapabilityCoreSameSteps ==
    (lake.built["spc_core"].done /\ lake.built["capability_core"].done)
        => Processed("capability_core") = Processed("spc_core")

-----------------------------------------------------------------------------
(* Rows since the last event *)

EventsCalled == call.op = "add_rows_since_last_event"
\* row i of the input is an event row
IsEventRow(i) == df_base.rows[i].label # NA /\ df_base.rows[i].label = call.event_value
SameGroup(i, j) == df_base.rows[i].STEP_ID = df_base.rows[j].STEP_ID
\* the event rows of the group of row i before row i
EarlierEvents(i) == {j \in 1..(i - 1) : SameGroup(i, j) /\ IsEventRow(j)}
MostRecent(js) == CHOOSE j \in js : \A x \in js : x <= j
\* the rows of the group of row i after row j, up to row i
RowsSince(i, j) == Cardinality({x \in (j + 1)..i : SameGroup(i, x)})
SinceLastOf(i) == call.out.rows[i][SinceLastColumn(call.event_value)]
EventsAsSpecified ==
    /\ Len(call.out.rows) = Len(df_base.rows)
    /\ \A i \in 1..Len(df_base.rows) :
          /\ call.out.rows[i].STEP_ID = df_base.rows[i].STEP_ID
          /\ call.out.rows[i].label = df_base.rows[i].label
          /\ df_base.rows[i].STEP_ID # NA =>
                SinceLastOf(i) =
                    IF IsEventRow(i) THEN 0
                    ELSE IF EarlierEvents(i) = {} THEN NA
                    ELSE RowsSince(i, MostRecent(EarlierEvents(i)))

\* C30: add_rows_since_last_event leaves the table it was given as it was,
\* and in its result every row that belongs to a group has 0 when it is an
\* event row, the number of rows of its own group since the group's most
\* recent earlier event row otherwise, and no value before the group's
\* first event; rows of other groups play no part in the count.
C30_RowsSinceLastEvent ==
    [][(call.op = "none" /\ call'.op = "add_rows_since_last_event")
          => (df_base' = df_base /\ EventsAsSpecified')]_vars

\* a call on two interleaved groups: group 1 has an event, two rows of
\* group 2 and later rows counted 1 and 2 from it, while group 2 has no
\* value before its own first event and a later event of its own
C30_Witness ==
    /\ EventsCalled
    /\ \E i, j, k \in 1..Len(df_base.rows) :
          /\ i < j /\ j < k
          /\ df_base.rows[i].STEP_ID = 1 /\ IsEventRow(i)
          /\ df_base.rows[j].STEP_ID = 2 /\ ~IsEventRow(j) /\ SinceLastOf(j) = NA
          /\ df_base.rows[k].STEP_ID = 1 /\ ~IsEventRow(k) /\ SinceLastOf(k) = 1

\* a call where a group has two events and a later row counted from the
\* second one
C30_WitnessSecondEvent ==
    /\ EventsCalled
    /\ \E i, j, k \in 1..Len(df_base.rows) :
          /\ i < j /\ j < k
          /\ SameGroup(i, j) /\ SameGroup(j, k) /\ df_base.rows[i].STEP_ID # NA
          /\ IsEventRow(i) /\ IsEventRow(j) /\ ~IsEventRow(k)
          /\ SinceLastOf(k) = RowsSince(k, j)

====
